---- MODULE Spec2Model ----
(***************************************************************************)
(* Postural measurement and deformity classification engine               *)
(* (AnalysisEngine), its calibration profile and the aggregation of the  *)
(* per-view results into the Deformity Summary.                           *)
(*                                                                         *)
(* Numbers.  Landmark coordinates are integers (pixel units).  An angle   *)
(* computed by Math.atan2 is kept as its floor in units of 0.05 degree    *)
(* and whether it is exactly that multiple, found from the coordinates    *)
(* with a tangent table, so that both the unrounded comparison with a     *)
(* threshold and the value rounded by toFixed(1) are the ones the code    *)
(* obtains.  Values printed by toFixed(1) are integers in tenths.         *)
(***************************************************************************)
EXTENDS Integers, Sequences, FiniteSets, TLC

(***************************************************************************)
(* Exact comparison of products beyond 32 bits                             *)
(***************************************************************************)
Limb == 2^15

Abs(n) == IF n < 0 THEN -n ELSE n
Min(a, b) == IF a < b THEN a ELSE b
Max(a, b) == IF a < b THEN b ELSE a
Sign(n) == IF n < 0 THEN -1 ELSE 1

\* a * b for 0 <= a, b < 2^29, as three base-Limb digits <<hi, mid, lo>>
Mul3(a, b) ==
  LET a1 == a \div Limb
      a0 == a % Limb
      b1 == b \div Limb
      b0 == b % Limb
      lo == a0 * b0
      mid == a1 * b0 + a0 * b1 + (lo \div Limb)
      hi == a1 * b1 + (mid \div Limb)
  IN  <<hi, mid % Limb, lo % Limb>>

\* p < q for two such products
Less3(p, q) ==
  \/ p[1] < q[1]
  \/ p[1] = q[1] /\ p[2] < q[2]
  \/ p[1] = q[1] /\ p[2] = q[2] /\ p[3] < q[3]

\* a * b < c * d, a * b <= c * d
ProdLess(a, b, c, d) == Less3(Mul3(a, b), Mul3(c, d))
ProdLeq(a, b, c, d) == ~Less3(Mul3(c, d), Mul3(a, b))

(***************************************************************************)
(* Math.atan2 in degrees                                                   *)
(***************************************************************************)
TanScale == 10^8

\* TanTab[i] = floor(tan(i * 0.05 degrees) * TanScale), i = 1..900
TanTab ==
  <<
     87266, 174533, 261799, 349067, 436335, 523603, 610872, 698143, 785414, 872686,
     959960, 1047235, 1134512, 1221791, 1309071, 1396354, 1483638, 1570925, 1658214, 1745506,
     1832800, 1920098, 2007398, 2094701, 2182007, 2269317, 2356630, 2443947, 2531267, 2618592,
     2705920, 2793252, 2880589, 2967930, 3055276, 3142626, 3229981, 3317341, 3404706, 3492076,
     3579452, 3666833, 3754220, 3841612, 3929010, 4016414, 4103825, 4191241, 4278664, 4366094,
     4453530, 4540973, 4628423, 4715880, 4803344, 4890815, 4978294, 5065781, 5153275, 5240777,
     5328288, 5415806, 5503332, 5590867, 5678411, 5765963, 5853524, 5941094, 6028673, 6116262,
     6203859, 6291466, 6379083, 6466709, 6554346, 6641992, 6729649, 6817316, 6904993, 6992681,
     7080379, 7168089, 7255809, 7343540, 7431283, 7519037, 7606803, 7694580, 7782369, 7870170,
     7957983, 8045808, 8133646, 8221496, 8309359, 8397234, 8485122, 8573024, 8660938, 8748866,
     8836807, 8924762, 9012730, 9100712, 9188709, 9276719, 9364744, 9452783, 9540836, 9628904,
     9716987, 9805085, 9893198, 9981326, 10069470, 10157629, 10245804, 10333994, 10422201, 10510423,
     10598662, 10686917, 10775188, 10863476, 10951781, 11040102, 11128441, 11216797, 11305170, 11393560,
     11481968, 11570394, 11658838, 11747300, 11835779, 11924278, 12012794, 12101329, 12189883, 12278456,
     12367047, 12455658, 12544288, 12632937, 12721606, 12810295, 12899003, 12987732, 13076480, 13165249,
     13254038, 13342848, 13431679, 13520530, 13609402, 13698296, 13787210, 13876146, 13965104, 14054083,
     14143084, 14232107, 14321152, 14410220, 14499309, 14588422, 14677557, 14766715, 14855896, 14945100,
     15034327, 15123578, 15212852, 15302150, 15391472, 15480817, 15570187, 15659582, 15749000, 15838444,
     15927912, 16017404, 16106922, 16196465, 16286034, 16375628, 16465247, 16554892, 16644563, 16734260,
     16823984, 16913733, 17003510, 17093313, 17183142, 17272999, 17362882, 17452793, 17542732, 17632698,
     17722691, 17812713, 17902762, 17992839, 18082945, 18173080, 18263242, 18353434, 18443654, 18533904,
     18624183, 18714491, 18804828, 18895196, 18985593, 19076020, 19166477, 19256964, 19347482, 19438030,
     19528610, 19619219, 19709861, 19800533, 19891236, 19981971, 20072738, 20163536, 20254367, 20345229,
     20436124, 20527052, 20618011, 20709004, 20800029, 20891088, 20982180, 21073305, 21164463, 21255656,
     21346882, 21438142, 21529436, 21620765, 21712128, 21803526, 21894958, 21986425, 22077928, 22169466,
     22261039, 22352648, 22444292, 22535973, 22627689, 22719442, 22811231, 22903057, 22994919, 23086819,
     23178755, 23270728, 23362739, 23454788, 23546874, 23638998, 23731160, 23823360, 23915598, 24007875,
     24100191, 24192546, 24284939, 24377372, 24469844, 24562355, 24654907, 24747498, 24840129, 24932800,
     25025511, 25118263, 25211056, 25303890, 25396764, 25489680, 25582637, 25675636, 25768676, 25861758,
     25954882, 26048048, 26141257, 26234508, 26327802, 26421139, 26514519, 26607942, 26701409, 26794919,
     26888473, 26982070, 27075712, 27169398, 27263129, 27356904, 27450724, 27544589, 27638499, 27732454,
     27826455, 27920501, 28014593, 28108732, 28202916, 28297147, 28391425, 28485749, 28580120, 28674538,
     28769004, 28863516, 28958077, 29052685, 29147341, 29242046, 29336799, 29431600, 29526450, 29621349,
     29716297, 29811294, 29906341, 30001437, 30096583, 30191780, 30287026, 30382322, 30477670, 30573068,
     30668517, 30764016, 30859568, 30955170, 31050825, 31146531, 31242289, 31338100, 31433963, 31529878,
     31625847, 31721868, 31817943, 31914070, 32010252, 32106487, 32202776, 32299119, 32395517, 32491969,
     32588476, 32685038, 32781654, 32878327, 32975054, 33071838, 33168677, 33265572, 33362523, 33459531,
     33556596, 33653718, 33750896, 33848132, 33945425, 34042776, 34140185, 34237652, 34335177, 34432761,
     34530403, 34628104, 34725864, 34823684, 34921563, 35019501, 35117500, 35215559, 35313677, 35411857,
     35510097, 35608398, 35706760, 35805183, 35903668, 36002215, 36100823, 36199494, 36298227, 36397023,
     36495881, 36594803, 36693787, 36792836, 36891947, 36991123, 37090362, 37189666, 37289034, 37388467,
     37487965, 37587528, 37687157, 37786851, 37886610, 37986436, 38086328, 38186286, 38286311, 38386403,
     38486562, 38586788, 38687082, 38787443, 38887873, 38988370, 39088936, 39189571, 39290274, 39391047,
     39491889, 39592800, 39693782, 39794833, 39895954, 39997146, 40098408, 40199742, 40301146, 40402622,
     40504170, 40605789, 40707480, 40809244, 40911080, 41012988, 41114970, 41217025, 41319154, 41421356,
     41523632, 41625982, 41728406, 41830906, 41933480, 42036129, 42138853, 42241653, 42344529, 42447481,
     42550509, 42653614, 42756796, 42860054, 42963390, 43066803, 43170295, 43273864, 43377511, 43481237,
     43585042, 43688925, 43792888, 43896930, 44001053, 44105255, 44209537, 44313900, 44418343, 44522868,
     44627474, 44732161, 44836930, 44941781, 45046715, 45151731, 45256830, 45362011, 45467276, 45572625,
     45678058, 45783574, 45889175, 45994861, 46100631, 46206486, 46312427, 46418454, 46524567, 46630765,
     46737051, 46843422, 46949881, 47056428, 47163061, 47269783, 47376593, 47483491, 47590477, 47697553,
     47804717, 47911972, 48019316, 48126749, 48234274, 48341888, 48449594, 48557391, 48665279, 48773258,
     48881330, 48989494, 49097750, 49206100, 49314542, 49423078, 49531707, 49640431, 49749248, 49858160,
     49967167, 50076269, 50185467, 50294760, 50404149, 50513634, 50623216, 50732895, 50842671, 50952544,
     51062516, 51172585, 51282752, 51393019, 51503384, 51613848, 51724412, 51835076, 51945840, 52056705,
     52167670, 52278736, 52389904, 52501173, 52612545, 52724018, 52835595, 52947274, 53059057, 53170943,
     53282933, 53395027, 53507226, 53619529, 53731938, 53844452, 53957072, 54069798, 54182630, 54295569,
     54408616, 54521769, 54635031, 54748400, 54861878, 54975465, 55089160, 55202965, 55316880, 55430905,
     55545040, 55659285, 55773642, 55888110, 56002690, 56117382, 56232187, 56347104, 56462134, 56577277,
     56692535, 56807906, 56923392, 57038992, 57154708, 57270539, 57386487, 57502550, 57618730, 57735026,
     57851440, 57967972, 58084621, 58201389, 58318276, 58435281, 58552406, 58669651, 58787016, 58904501,
     59022107, 59139835, 59257684, 59375654, 59493748, 59611964, 59730302, 59848765, 59967351, 60086061,
     60204896, 60323856, 60442941, 60562152, 60681489, 60800953, 60920543, 61040260, 61160105, 61280078,
     61400180, 61520410, 61640769, 61761258, 61881877, 62002626, 62123506, 62244517, 62365660, 62486935,
     62608342, 62729881, 62851554, 62973360, 63095301, 63217375, 63339585, 63461929, 63584409, 63707026,
     63829778, 63952668, 64075694, 64198859, 64322161, 64445602, 64569182, 64692901, 64816760, 64940759,
     65064899, 65189179, 65313602, 65438166, 65562872, 65687722, 65812714, 65937850, 66063131, 66188556,
     66314125, 66439841, 66565702, 66691709, 66817863, 66944165, 67070614, 67197211, 67323956, 67450851,
     67577895, 67705089, 67832434, 67959929, 68087576, 68215374, 68343325, 68471429, 68599685, 68728095,
     68856660, 68985379, 69114253, 69243282, 69372468, 69501810, 69631309, 69760966, 69890780, 70020753,
     70150885, 70281177, 70411628, 70542240, 70673012, 70803946, 70935042, 71066300, 71197722, 71329306,
     71461055, 71592968, 71725046, 71857289, 71989698, 72122274, 72255017, 72387927, 72521005, 72654252,
     72787668, 72921254, 73055009, 73188936, 73323033, 73457302, 73591744, 73726358, 73861146, 73996107,
     74131243, 74266554, 74402040, 74537702, 74673541, 74809557, 74945751, 75082123, 75218674, 75355405,
     75492315, 75629406, 75766677, 75904131, 76041766, 76179585, 76317587, 76455773, 76594143, 76732698,
     76871439, 77010367, 77149481, 77288783, 77428272, 77567951, 77707818, 77847876, 77988123, 78128562,
     78269193, 78410015, 78551031, 78692240, 78833643, 78975241, 79117034, 79259023, 79401208, 79543591,
     79686172, 79828951, 79971929, 80115107, 80258485, 80402064, 80545844, 80689827, 80834013, 80978403,
     81122996, 81267795, 81412799, 81558009, 81703426, 81849051, 81994884, 82140926, 82287177, 82433638,
     82580310, 82727194, 82874290, 83021599, 83169122, 83316858, 83464810, 83612978, 83761362, 83909963,
     84058781, 84207819, 84357075, 84506551, 84656248, 84806167, 84956307, 85106670, 85257257, 85408068,
     85559104, 85710366, 85861854, 86013569, 86165512, 86317684, 86470085, 86622717, 86775579, 86928673,
     87082000, 87235560, 87389353, 87543382, 87697646, 87852146, 88006883, 88161859, 88317073, 88472526,
     88628220, 88784154, 88940330, 89096749, 89253412, 89410319, 89567470, 89724868, 89882512, 90040404,
     90198544, 90356933, 90515572, 90674462, 90833604, 90992998, 91152646, 91312548, 91472704, 91633117,
     91793786, 91954713, 92115899, 92277344, 92439049, 92601015, 92763243, 92925734, 93088489, 93251508,
     93414793, 93578344, 93742163, 93906250, 94070606, 94235232, 94400130, 94565299, 94730741, 94896456,
     95062447, 95228713, 95395255, 95562075, 95729174, 95896552, 96064210, 96232150, 96400372, 96568877,
     96737666, 96906741, 97076102, 97245750, 97415687, 97585912, 97756428, 97927235, 98098334, 98269726,
     98441412, 98613394, 98785672, 98958247, 99131121, 99304293, 99477767, 99651541, 99825619, 100000000
  >>

\* largest i in lo..hi-1 with tan(i * 0.05 deg) <= p / q, for 0 <= p < q
\* the largest i in lo..hi-1 with tan(i * 0.05 degrees) <= p / q
RECURSIVE TanFloor(_, _, _, _)
TanFloor(p, q, lo, hi) ==
  IF hi - lo <= 1 THEN lo
  ELSE IF ProdLeq(TanTab[(lo + hi) \div 2], q, p, TanScale)
  THEN TanFloor(p, q, (lo + hi) \div 2, hi)
  ELSE TanFloor(p, q, lo, (lo + hi) \div 2)

\* an angle in [0, 180] degrees: its floor in units of 0.05 degree, and
\* whether it is exactly that
Angle(floor, exact) == [floor |-> floor, exact |-> exact]

\* atan(p / q) for 0 <= p <= q, q > 0
Octant(p, q) ==
  IF p = q THEN Angle(900, TRUE)
  ELSE IF p = 0 THEN Angle(0, TRUE)
  ELSE Angle(TanFloor(p, q, 0, 900), FALSE)

\* whole - angle, whole a multiple of 0.05 degree given in those units
Complement(whole, angle) ==
  IF angle.exact THEN Angle(whole - angle.floor, TRUE)
  ELSE Angle(whole - 1 - angle.floor, FALSE)

\* atan2(y, x) from the angle o of its octant
Unfold(y, x, o) ==
  IF x > 0 /\ y <= x THEN o
  ELSE IF x >= 0 THEN Complement(1800, o)
  ELSE IF -x < y THEN Angle(1800 + o.floor, o.exact)
  ELSE Complement(3600, o)

\* Math.atan2(y, x) * 180 / Math.PI for y >= 0; atan2(0, 0) is 0
Ang(y, x) ==
  IF y = 0 /\ x = 0 THEN Angle(0, TRUE)
  ELSE Unfold(y, x, Octant(Min(Abs(x), y), Max(Abs(x), y)))

\* angle > deg, angle < deg (deg a whole number of degrees)
AngGt(a, deg) == a.floor >= 20 * deg /\ ~(a.floor = 20 * deg /\ a.exact)
AngLt(a, deg) == a.floor < 20 * deg

\* angle.toFixed(1), in tenths of a degree
ToFixed1(a) == (a.floor + 1) \div 2

(***************************************************************************)
(* JavaScript values                                                        *)
(***************************************************************************)
\* a number (v an integer), NaN, +/-Infinity (v its sign), undefined, and a
\* non-numeric, non-empty string such as "abc"
Num(n) == [k |-> "number", v |-> n]
NaN == [k |-> "NaN", v |-> 0]
Infinity(sign) == [k |-> "Infinity", v |-> sign]
Undefined == [k |-> "undefined", v |-> 0]
Str == [k |-> "string", v |-> 0]

\* a || b: 0, NaN and undefined are falsy; other numbers and "abc" truthy
OrElse(a, b) ==
  IF \/ a.k = "number" /\ a.v # 0
     \/ a.k = "Infinity"
     \/ a.k = "string"
  THEN a ELSE b

\* round(n / sqrt(d2)) for n >= 0, d2 > 0: the largest t with
\* (2t - 1) * sqrt(d2) <= 2n, searched in lo..hi-1
RECURSIVE RoundDivSqrt(_, _, _, _)
RoundDivSqrt(n, d2, lo, hi) ==
  IF hi - lo <= 1 THEN lo
  ELSE LET mid == (lo + hi) \div 2
       IN  IF ProdLeq((2 * mid - 1) * (2 * mid - 1), d2, 2 * n, 2 * n)
           THEN RoundDivSqrt(n, d2, mid, hi)
           ELSE RoundDivSqrt(n, d2, lo, mid)

\* (heightDiffPx * (WIDTH_CM / distancePx)).toFixed(1) with
\* distancePx = Math.sqrt(d2): tenths of a centimeter, or NaN / Infinity as
\* division by a zero distance produces them
CmFixed(heightDiffPx, WIDTH_CM, d2) ==
  IF WIDTH_CM.k \in {"NaN", "undefined", "string"} THEN NaN
  ELSE IF WIDTH_CM.k = "Infinity"
    THEN IF heightDiffPx = 0 THEN NaN ELSE Infinity(WIDTH_CM.v)
  ELSE IF d2 = 0
    THEN IF WIDTH_CM.v = 0 \/ heightDiffPx = 0 THEN NaN
         ELSE Infinity(Sign(WIDTH_CM.v))
  ELSE LET n == 10 * heightDiffPx * Abs(WIDTH_CM.v)
       IN  Num(Sign(WIDTH_CM.v) * RoundDivSqrt(n, d2, 0, Min(n + 1, 2^13)))

(***************************************************************************)
(* Geometry primitives                                                      *)
(***************************************************************************)
Pt(x, y) == [x |-> x, y |-> y]

\* the vector from one point to another; atan2(0, 0) is 0, the bearing of
\* the vector (1, 0)
Ray(from, to) ==
  IF to.x = from.x /\ to.y = from.y THEN Pt(1, 0)
  ELSE Pt(to.x - from.x, to.y - from.y)

\* the angle between two vectors, in [0, 180]
Between(u, w) == Ang(Abs(u.x * w.y - u.y * w.x), u.x * w.x + u.y * w.y)

\* Two opposite rays, a straight joint, for which the difference of the two
\* Math.atan2 values, taken in doubles, comes out one unit in the last place
\* away from pi, so that the angle returned is 179.99999999999997 and not
\* 180: the rays along a line that leans 265 px over 380 px, to either side.
\* Straight joints along the axes, and along every line within 20 degrees of
\* the vertical, come out as 180 exactly.
FallsShort(u, w) ==
  /\ u.x * w.y = u.y * w.x
  /\ u.x * w.x + u.y * w.y < 0
  /\ \E d \in {<<265, 380>>, <<265, -380>>} : u.x * d[2] = u.y * d[1]

\* angle at b between the rays b->a and b->c, reflected into [0, 180]; a
\* straight joint that falls short is just below 180 degrees
calculateAngle(a, b, c) ==
  IF FallsShort(Ray(b, a), Ray(b, c)) THEN Angle(3599, FALSE)
  ELSE Between(Ray(b, a), Ray(b, c))

\* the tilt as Math.atan2 gives it, up to 180 degrees for a pair whose
\* second point lies to the left of the first
rawSlopeAngle(point1, point2) ==
  Ang(Abs(point2.y - point1.y), point2.x - point1.x)

\* the bearing of the line point1-point2 from the vertical
slopeFromVertical(point1, point2) ==
  Ang(Abs(point2.x - point1.x), Abs(point2.y - point1.y))

\* tilt of the line point1-point2 from the horizontal, in [0, 90]
calculateSlopeAngle(point1, point2) ==
  Ang(Abs(point2.y - point1.y), Abs(point2.x - point1.x))

\* offset of point2 from the vertical through point1, in [0, 90]
calculateHorizontalDeviation(point1, point2) ==
  IF point2.y = point1.y THEN Angle(0, TRUE)
  ELSE Ang(Abs(point2.x - point1.x), Abs(point2.y - point1.y))

\* Math.abs(180 - angle)
Deviation180(angle) == Complement(3600, angle)

\* squared pixel distance: distancePx = Math.sqrt(Dist2(p, q))
Dist2(p, q) == (q.x - p.x) * (q.x - p.x) + (q.y - p.y) * (q.y - p.y)

\* twice the midpoint of p and q (angles and cm ratios are scale-free, so
\* a midpoint is compared with the other points doubled)
Mid2(p, q) == Pt(p.x + q.x, p.y + q.y)
Twice(p) == Pt(2 * p.x, 2 * p.y)

(***************************************************************************)
(* Landmark sets and analyzer results                                       *)
(***************************************************************************)
\* A landmark set is null, or an array: the empty array, or the 33 pose
\* landmarks, of which the analyzers read (by index) nose 0, ears 7/8,
\* shoulders 11/12, elbows 13/14, hips 23/24, knees 25/26, ankles 27/28,
\* heels 29/30 and foot indices 31/32.
NullLandmarks == [tag |-> "null"]
EmptyLandmarks == [tag |-> "array", length |-> 0]

\* the guard without its test of the length
OnlyNullIsMissing(landmarks) == landmarks.tag = "null"

\* !landmarks || landmarks.length === 0
IsMissing(landmarks) ==
  landmarks.tag = "null" \/ landmarks.length = 0

\* { issues: [], recommendations: [], measurements: {}, deformities: [] }
EmptyResult ==
  [issues |-> <<>>, recommendations |-> <<>>, measurements |-> <<>>,
   deformities |-> <<>>]

\* reading .x of landmarks[i] in an array shorter than i + 1
TypeError == [threw |-> "TypeError"]

Threw(result) == "threw" \in DOMAIN result

\* an issue string: the sentinel carries the check mark, the others the
\* warning sign and the values interpolated into the text
Sentinel(text) == [mark |-> "ok", about |-> text]

\* issue.includes(check mark)
IncludesCheckMark(issue) == issue.mark = "ok"

\* what one section of an analyzer pushes
Pushed(deformities, issues, recommendations) ==
  [deformities |-> deformities, issues |-> issues,
   recommendations |-> recommendations]

Nothing == Pushed(<<>>, <<>>, <<>>)

\* the pushes of the sections of an analyzer, in the order it runs them
RECURSIVE Collected(_)
Collected(sections) ==
  IF Len(sections) = 0 THEN Nothing
  ELSE LET first == Head(sections).pushed
           rest == Collected(Tail(sections))
       IN  Pushed(first.deformities \o rest.deformities,
                  first.issues \o rest.issues,
                  first.recommendations \o rest.recommendations)

\* the sentinel pushed whether or not an issue was
sentinelAlways(pushed, normal, measurements) ==
  [issues |-> pushed.issues \o <<Sentinel(normal)>>,
   recommendations |-> pushed.recommendations,
   measurements |-> measurements,
   deformities |-> pushed.deformities]

\* what an analyzer returns: the sentinel is pushed when no issue was
Result(pushed, normal, measurements) ==
  [issues |->
     IF Len(pushed.issues) = 0 THEN <<Sentinel(normal)>> ELSE pushed.issues,
   recommendations |-> pushed.recommendations,
   measurements |-> measurements,
   deformities |-> pushed.deformities]

\* the side of larger y, the lower one on the screen
SideOfLargerY(left, right) == IF left.y > right.y THEN "LEFT" ELSE "RIGHT"

\* left.y < right.y ? 'LEFT' : 'RIGHT' and its opposite
HigherSide(left, right) == IF left.y < right.y THEN "LEFT" ELSE "RIGHT"
LowerSide(left, right) == IF left.y < right.y THEN "RIGHT" ELSE "LEFT"

\* a level metric measured as angle and cm: the deformity with its
\* elevated and depressed side and the issue, when over the threshold
LevelFinding(type, about, left, right, angle, threshold, cm, recommendations) ==
  [angle |-> ToFixed1(angle),
   cm |-> cm,
   pushed |->
     IF AngGt(angle, threshold)
     THEN Pushed(
            <<[type |-> type, elevated |-> HigherSide(left, right),
               depressed |-> LowerSide(left, right),
               angle |-> ToFixed1(angle), distance |-> cm]>>,
            <<[mark |-> "warn", about |-> about,
               elevated |-> HigherSide(left, right),
               depressed |-> LowerSide(left, right),
               cm |-> cm, angle |-> ToFixed1(angle)]>>,
            recommendations)
     ELSE Nothing]

\* a level metric of a landmark pair: the slope of the pair, and its
\* height difference scaled by WIDTH_CM over the reference distance
Level(type, about, left, right, threshold, WIDTH_CM, distance2, recommendations) ==
  LevelFinding(type, about, left, right, calculateSlopeAngle(left, right),
               threshold, CmFixed(Abs(left.y - right.y), WIDTH_CM, distance2),
               recommendations)

(***************************************************************************)
(* Front view                                                               *)
(***************************************************************************)
EarThreshold == 3
NeckThreshold == 5
ShoulderThreshold == 2
ElbowThreshold == 3
HipThreshold == 2
KneeThreshold == 8
KneeLevelThreshold == 2

\* hipDistancePx squared in the front view: the y term subtracts rightHip.y
\* from itself
FrontHipDist2(leftHip, rightHip) ==
  (rightHip.x - leftHip.x) * (rightHip.x - leftHip.x)
    + (rightHip.y - rightHip.y) * (rightHip.y - rightHip.y)

\* 1. ear pinnae level
FrontEarLevel(landmarks, userCalibration) ==
  Level("Ear Pinnae Asymmetry", "Ear pinnae asymmetry",
        landmarks.leftEar, landmarks.rightEar, EarThreshold,
        userCalibration.headWidth,
        Dist2(landmarks.leftEar, landmarks.rightEar),
        <<"Assess for cervical rotation restrictions",
          "Cranial tilt correction exercises">>)

\* 2. neck level, from the nose and twice the shoulder midpoint
NeckFinding(nose, shoulderMidpoint2, neckDeviation, neckLevelCm) ==
  [angle |-> ToFixed1(neckDeviation),
   cm |-> neckLevelCm,
   pushed |->
     IF AngGt(neckDeviation, NeckThreshold)
     THEN Pushed(
            <<[type |-> "Cervical Lateral Deviation",
               direction |-> IF 2 * nose.x < shoulderMidpoint2.x
                             THEN "LEFT" ELSE "RIGHT",
               angle |-> ToFixed1(neckDeviation),
               distance |-> neckLevelCm]>>,
            <<[mark |-> "warn", about |-> "Cervical lateral deviation",
               side |-> IF 2 * nose.x < shoulderMidpoint2.x
                        THEN "LEFT" ELSE "RIGHT",
               cm |-> neckLevelCm, angle |-> ToFixed1(neckDeviation)]>>,
            <<"Cervical lateral flexion stretching",
              "Sternocleidomastoid and scalene muscle balancing">>)
     ELSE Nothing]

FrontNeckLevel(landmarks, userCalibration) ==
  NeckFinding(
    landmarks.nose,
    Mid2(landmarks.leftShoulder, landmarks.rightShoulder),
    calculateHorizontalDeviation(
      Mid2(landmarks.leftShoulder, landmarks.rightShoulder),
      Twice(landmarks.nose)),
    CmFixed(Abs(2 * landmarks.nose.x
                  - Mid2(landmarks.leftShoulder, landmarks.rightShoulder).x),
            userCalibration.shoulderWidth,
            4 * Dist2(landmarks.leftShoulder, landmarks.rightShoulder)))

\* 3. shoulder level
FrontShoulderLevel(landmarks, userCalibration) ==
  Level("Shoulder Level Asymmetry", "Shoulder asymmetry",
        landmarks.leftShoulder, landmarks.rightShoulder, ShoulderThreshold,
        userCalibration.shoulderWidth,
        Dist2(landmarks.leftShoulder, landmarks.rightShoulder),
        <<"Upper trapezius stretching on "
            \o HigherSide(landmarks.leftShoulder, landmarks.rightShoulder)
            \o " side",
          "Lower trapezius strengthening on "
            \o LowerSide(landmarks.leftShoulder, landmarks.rightShoulder)
            \o " side">>)

\* 4. elbow level
FrontElbowLevel(landmarks, userCalibration) ==
  Level("Elbow Level Asymmetry", "Elbow asymmetry",
        landmarks.leftElbow, landmarks.rightElbow, ElbowThreshold,
        userCalibration.shoulderWidth,
        Dist2(landmarks.leftShoulder, landmarks.rightShoulder),
        <<"Assess shoulder girdle complex">>)

\* 5. pelvic obliquity
FrontPelvicObliquity(landmarks, userCalibration) ==
  Level("Pelvic Obliquity", "Pelvic obliquity",
        landmarks.leftHip, landmarks.rightHip, HipThreshold,
        userCalibration.hipWidth,
        FrontHipDist2(landmarks.leftHip, landmarks.rightHip),
        <<"Leg length discrepancy assessment required",
          "Hip abductor strengthening on "
            \o LowerSide(landmarks.leftHip, landmarks.rightHip)
            \o " side">>)

\* a direction given to outward knees only
varusOrNone(kneeAngle) ==
  IF AngGt(kneeAngle, 180) THEN "VARUS (OUTWARD/BOW-LEGGED)" ELSE ""

\* 6. knee alignment: the direction of a knee from its joint angle
FrontKneeDirection(kneeAngle) ==
  IF AngLt(kneeAngle, 180) THEN "VALGUS (INWARD/KNOCKED)"
  ELSE IF AngGt(kneeAngle, 180) THEN "VARUS (OUTWARD/BOW-LEGGED)"
  ELSE ""

\* direction.includes(word) for the two knee directions
IncludesValgus(direction) == direction = "VALGUS (INWARD/KNOCKED)"
IncludesVarus(direction) == direction = "VARUS (OUTWARD/BOW-LEGGED)"

\* one knee: its deformity and its part of the knee issue, when over the
\* threshold
FrontKnee(limb, type, kneeAngle) ==
  [alignment |-> ToFixed1(Deviation180(kneeAngle)),
   direction |-> FrontKneeDirection(kneeAngle),
   over |-> AngGt(Deviation180(kneeAngle), KneeThreshold),
   deformities |->
     IF AngGt(Deviation180(kneeAngle), KneeThreshold)
     THEN <<[type |-> type, direction |-> FrontKneeDirection(kneeAngle),
             angle |-> ToFixed1(Deviation180(kneeAngle)), side |-> limb]>>
     ELSE <<>>,
   named |->
     IF AngGt(Deviation180(kneeAngle), KneeThreshold)
     THEN <<FrontKneeDirection(kneeAngle),
            ToFixed1(Deviation180(kneeAngle))>>
     ELSE <<>>]

\* both knees: one issue naming each knee over the threshold
FrontKnees(left, right) ==
  [left |-> left,
   right |-> right,
   pushed |->
     IF left.over \/ right.over
     THEN Pushed(
            left.deformities \o right.deformities,
            <<[mark |-> "warn", about |-> "Knee alignment",
               left |-> left.named, right |-> right.named]>>,
            (IF IncludesValgus(left.direction)
                  \/ IncludesValgus(right.direction)
             THEN <<"Hip abductor strengthening for valgus correction",
                    "VMO (Vastus Medialis Oblique) strengthening">>
             ELSE <<>>)
            \o
            (IF IncludesVarus(left.direction)
                  \/ IncludesVarus(right.direction)
             THEN <<"Hip adductor strengthening for varus correction",
                    "ITB (Iliotibial Band) stretching">>
             ELSE <<>>))
     ELSE Nothing]

FrontKneeAlignment(landmarks) ==
  FrontKnees(
    FrontKnee("LEFT", "Left Knee Malalignment",
              calculateAngle(landmarks.leftHip, landmarks.leftKnee,
                             landmarks.leftAnkle)),
    FrontKnee("RIGHT", "Right Knee Malalignment",
              calculateAngle(landmarks.rightHip, landmarks.rightKnee,
                             landmarks.rightAnkle)))

\* 7. knee level
FrontKneeLevel(landmarks, userCalibration) ==
  Level("Knee Height Asymmetry", "Knee height asymmetry",
        landmarks.leftKnee, landmarks.rightKnee, KneeLevelThreshold,
        userCalibration.hipWidth,
        FrontHipDist2(landmarks.leftHip, landmarks.rightHip),
        <<"Functional leg length assessment">>)

\* the result of the front view from its seven sections
FrontResult(ear, neck, shoulder, elbow, hip, knees, kneeLevel) ==
  Result(
    Collected(<<ear, neck, shoulder, elbow, hip, knees, kneeLevel>>),
    "Normal frontal plane alignment",
    [earPinnaeLevel |-> ear.angle,
     earPinnaeLevelCm |-> ear.cm,
     neckLevel |-> neck.angle,
     neckLevelCm |-> neck.cm,
     shoulderLevel |-> shoulder.angle,
     shoulderLevelCm |-> shoulder.cm,
     elbowLevel |-> elbow.angle,
     elbowLevelCm |-> elbow.cm,
     pelvicObliquity |-> hip.angle,
     pelvicObliquityCm |-> hip.cm,
     leftKneeAlignment |-> knees.left.alignment,
     leftKneeDirection |-> knees.left.direction,
     rightKneeAlignment |-> knees.right.alignment,
     rightKneeDirection |-> knees.right.direction,
     kneeLevel |-> kneeLevel.angle,
     kneeLevelCm |-> kneeLevel.cm])

analyzeFrontView(landmarks, userCalibration) ==
  IF IsMissing(landmarks) THEN EmptyResult
  ELSE IF landmarks.length < 29 THEN TypeError
  ELSE FrontResult(FrontEarLevel(landmarks, userCalibration),
                   FrontNeckLevel(landmarks, userCalibration),
                   FrontShoulderLevel(landmarks, userCalibration),
                   FrontElbowLevel(landmarks, userCalibration),
                   FrontPelvicObliquity(landmarks, userCalibration),
                   FrontKneeAlignment(landmarks),
                   FrontKneeLevel(landmarks, userCalibration))

(***************************************************************************)
(* Side view                                                                *)
(***************************************************************************)
ForwardNeckThreshold == 15
ChinForwardThreshold == 12
ShoulderPositionThreshold == 10
KyphosisUpper == 40
KyphosisLower == 20
LordosisUpper == 60
LordosisLower == 40
KneePositionThreshold == 5

\* (horizontalDistPx * ratio).toFixed(1) with
\* ratio = verticalDistPx > 0 ? NECK_LENGTH_CM / verticalDistPx : 0.3;
\* both distances are given doubled (they are midpoint differences)
ForwardCmFixed(horizontal2, vertical2, NECK_LENGTH_CM) ==
  IF vertical2 > 0
  THEN IF NECK_LENGTH_CM.k \in {"NaN", "undefined", "string"} THEN NaN
       ELSE IF NECK_LENGTH_CM.k = "Infinity"
         THEN IF horizontal2 = 0 THEN NaN ELSE Infinity(NECK_LENGTH_CM.v)
       ELSE Num(Sign(NECK_LENGTH_CM.v)
                  * ((20 * horizontal2 * Abs(NECK_LENGTH_CM.v) + vertical2)
                       \div (2 * vertical2)))
  ELSE Num((3 * horizontal2 + 1) \div 2)

\* angle and cm of a point (doubled) forward of the shoulder midpoint
\* (doubled)
Forward(shoulderAvg2, point2, NECK_LENGTH_CM) ==
  [angle |-> calculateHorizontalDeviation(shoulderAvg2, point2),
   cm |-> ForwardCmFixed(Abs(point2.x - shoulderAvg2.x),
                         Abs(point2.y - shoulderAvg2.y), NECK_LENGTH_CM)]

\* 1. forward neck posture and 2. chin forward
HeadFinding(neck, chin) ==
  [neck |-> [angle |-> ToFixed1(neck.angle), cm |-> neck.cm],
   chin |-> [angle |-> ToFixed1(chin.angle), cm |-> chin.cm],
   pushed |->
     IF AngGt(neck.angle, ForwardNeckThreshold)
          \/ AngGt(chin.angle, ChinForwardThreshold)
     THEN Pushed(
            <<[type |-> "Forward Head Posture", direction |-> "ANTERIOR",
               neckAngle |-> ToFixed1(neck.angle),
               neckDistance |-> neck.cm,
               chinAngle |-> ToFixed1(chin.angle),
               chinDistance |-> chin.cm]>>,
            <<[mark |-> "warn", about |-> "Forward head posture",
               neckCm |-> neck.cm, neckAngle |-> ToFixed1(neck.angle),
               chinCm |-> chin.cm, chinAngle |-> ToFixed1(chin.angle)]>>,
            <<"Deep neck flexor strengthening",
              "Postural awareness training">>)
     ELSE Nothing]

SideForwardHead(landmarks, userCalibration) ==
  HeadFinding(
    Forward(Mid2(landmarks.leftShoulder, landmarks.rightShoulder),
            Mid2(landmarks.leftEar, landmarks.rightEar),
            userCalibration.neckLength),
    Forward(Mid2(landmarks.leftShoulder, landmarks.rightShoulder),
            Twice(landmarks.nose), userCalibration.neckLength))

\* 3. shoulder position
ShoulderFinding(shoulderToHipAngle) ==
  [angle |-> ToFixed1(Deviation180(shoulderToHipAngle)),
   type |-> IF AngLt(shoulderToHipAngle, 180) THEN "ROUNDED (ANTERIOR)"
            ELSE "RETRACTED (POSTERIOR)",
   pushed |->
     IF AngGt(Deviation180(shoulderToHipAngle), ShoulderPositionThreshold)
     THEN Pushed(
            <<[type |-> "Shoulder Position Deviation",
               direction |-> IF AngLt(shoulderToHipAngle, 180)
                             THEN "ROUNDED (ANTERIOR)"
                             ELSE "RETRACTED (POSTERIOR)",
               angle |-> ToFixed1(Deviation180(shoulderToHipAngle))]>>,
            <<[mark |-> "warn", about |-> "Shoulder position",
               direction |-> IF AngLt(shoulderToHipAngle, 180)
                             THEN "ROUNDED (ANTERIOR)"
                             ELSE "RETRACTED (POSTERIOR)",
               angle |-> ToFixed1(Deviation180(shoulderToHipAngle))]>>,
            IF AngLt(shoulderToHipAngle, 180)
            THEN <<"Scapular retraction exercises", "Pectoralis stretching">>
            ELSE <<>>)
     ELSE Nothing]

\* the angle at the shoulders between the ears and the hips
EarShoulderHip(landmarks) ==
  calculateAngle(Mid2(landmarks.leftEar, landmarks.rightEar),
                 Mid2(landmarks.leftShoulder, landmarks.rightShoulder),
                 Mid2(landmarks.leftHip, landmarks.rightHip))

SideShoulderPosition(landmarks) == ShoulderFinding(EarShoulderHip(landmarks))

\* a curvature: excessive above upper, reduced below lower
CurvatureFinding(curvature, upper, lower, type, excessive, reduced) ==
  [angle |-> ToFixed1(curvature),
   type |-> IF AngGt(curvature, upper) THEN excessive.type
            ELSE IF AngLt(curvature, lower) THEN reduced.type
            ELSE "Normal",
   pushed |->
     IF AngGt(curvature, upper)
     THEN Pushed(
            <<[type |-> type, direction |-> excessive.direction,
               angle |-> ToFixed1(curvature)]>>,
            <<[mark |-> "warn", about |-> excessive.about,
               angle |-> ToFixed1(curvature)]>>,
            excessive.recommendations)
     ELSE IF AngLt(curvature, lower)
     THEN Pushed(
            <<[type |-> type, direction |-> reduced.direction,
               angle |-> ToFixed1(curvature)]>>,
            <<[mark |-> "warn", about |-> reduced.about,
               angle |-> ToFixed1(curvature)]>>,
            reduced.recommendations)
     ELSE Nothing]

\* 4. thoracic curvature:
\* kyphosisAngle = thoracicAngle < 180 ? (180 - thoracicAngle) : 0
Kyphosis(thoracicAngle) ==
  IF AngLt(thoracicAngle, 180) THEN Deviation180(thoracicAngle)
  ELSE Angle(0, TRUE)

SideThoracicCurvature(landmarks) ==
  CurvatureFinding(
    Kyphosis(EarShoulderHip(landmarks)), KyphosisUpper, KyphosisLower,
    "Thoracic Curvature",
    [type |-> "EXCESSIVE KYPHOSIS",
     direction |-> "EXCESSIVE KYPHOSIS (POSTERIOR CONVEXITY)",
     about |-> "Excessive thoracic kyphosis",
     recommendations |->
       <<"Thoracic extension mobilization", "Upper back strengthening">>],
    [type |-> "REDUCED KYPHOSIS (FLAT BACK)",
     direction |-> "REDUCED KYPHOSIS (FLAT BACK)",
     about |-> "Reduced thoracic kyphosis",
     recommendations |-> <<"Thoracic mobility exercises">>])

\* the lumbar angle taken like the thoracic one, from the straight line
lordosisFromStraight(lumbarAngle) == Kyphosis(lumbarAngle)

\* 5. lumbar curvature:
\* lordosisAngle = lumbarAngle > 180 ? (lumbarAngle - 180) : 0
Lordosis(lumbarAngle) ==
  IF AngGt(lumbarAngle, 180) THEN Deviation180(lumbarAngle)
  ELSE Angle(0, TRUE)

SideLumbarCurvature(landmarks) ==
  CurvatureFinding(
    Lordosis(calculateAngle(
               Mid2(landmarks.leftShoulder, landmarks.rightShoulder),
               Mid2(landmarks.leftHip, landmarks.rightHip),
               Mid2(landmarks.leftKnee, landmarks.rightKnee))),
    LordosisUpper, LordosisLower, "Lumbar Curvature",
    [type |-> "EXCESSIVE LORDOSIS",
     direction |-> "EXCESSIVE LORDOSIS (ANTERIOR CONVEXITY)",
     about |-> "Excessive lumbar lordosis",
     recommendations |-> <<"Hip flexor stretching", "Core strengthening">>],
    [type |-> "REDUCED LORDOSIS (FLAT LUMBAR)",
     direction |-> "REDUCED LORDOSIS (FLAT LUMBAR)",
     about |-> "Reduced lumbar lordosis",
     recommendations |-> <<"Lumbar extension mobility">>])

\* 6. knee position: the position of a knee from its joint angle
SideKneePosition(kneeAngle) ==
  IF AngLt(kneeAngle, 180) THEN "FLEXION"
  ELSE IF AngGt(kneeAngle, 180) THEN "HYPEREXTENSION (RECURVATUM)"
  ELSE "NEUTRAL"

\* one knee of the side view: its deformity, issue and recommendations
SideKneeFinding(limb, type, kneeAngle) ==
  [angle |-> ToFixed1(Deviation180(kneeAngle)),
   type |-> SideKneePosition(kneeAngle),
   pushed |->
     IF AngGt(Deviation180(kneeAngle), KneePositionThreshold)
     THEN Pushed(
            <<[type |-> type, direction |-> SideKneePosition(kneeAngle),
               angle |-> ToFixed1(Deviation180(kneeAngle)),
               side |-> limb]>>,
            <<[mark |-> "warn", about |-> limb \o " knee",
               direction |-> SideKneePosition(kneeAngle),
               angle |-> ToFixed1(Deviation180(kneeAngle))]>>,
            IF SideKneePosition(kneeAngle) = "FLEXION"
            THEN <<limb \o " quadriceps strengthening",
                   limb \o " hamstring stretching">>
            ELSE IF SideKneePosition(kneeAngle)
                      = "HYPEREXTENSION (RECURVATUM)"
            THEN <<limb \o " hamstring strengthening",
                   limb \o " knee proprioception training">>
            ELSE <<>>)
     ELSE Nothing]

SideLeftKnee(landmarks) ==
  SideKneeFinding("LEFT", "Left Knee Position",
                  calculateAngle(landmarks.leftHip, landmarks.leftKnee,
                                 landmarks.leftAnkle))

SideRightKnee(landmarks) ==
  SideKneeFinding("RIGHT", "Right Knee Position",
                  calculateAngle(landmarks.rightHip, landmarks.rightKnee,
                                 landmarks.rightAnkle))

\* the result of a side view from its sections
SideResult(head, shoulder, thoracic, lumbar, leftKnee, rightKnee) ==
  Result(
    Collected(<<head, shoulder, thoracic, lumbar, leftKnee, rightKnee>>),
    "Normal sagittal plane alignment",
    [forwardNeck |-> head.neck.angle,
     forwardNeckCm |-> head.neck.cm,
     chinForward |-> head.chin.angle,
     chinForwardCm |-> head.chin.cm,
     shoulderPosition |-> shoulder.angle,
     shoulderPostureType |-> shoulder.type,
     thoracicCurvature |-> thoracic.angle,
     thoracicCurvatureType |-> thoracic.type,
     lumbarCurvature |-> lumbar.angle,
     lumbarCurvatureType |-> lumbar.type,
     leftKneePosition |-> leftKnee.angle,
     leftKneePositionType |-> leftKnee.type,
     rightKneePosition |-> rightKnee.angle,
     rightKneePositionType |-> rightKnee.type])

analyzeSideView(landmarks, side, userCalibration) ==
  IF IsMissing(landmarks) THEN EmptyResult
  ELSE IF landmarks.length < 29 THEN TypeError
  ELSE SideResult(SideForwardHead(landmarks, userCalibration),
                  SideShoulderPosition(landmarks),
                  SideThoracicCurvature(landmarks),
                  SideLumbarCurvature(landmarks),
                  SideLeftKnee(landmarks),
                  SideRightKnee(landmarks))

(***************************************************************************)
(* Back view                                                                *)
(***************************************************************************)
ScapularThreshold == 2
PsisThreshold == 2
GlutealThreshold == 3
PoplitealThreshold == 2
AnkleThreshold == 5

\* 1. elbow level
BackElbowLevel(landmarks, userCalibration) ==
  Level("Elbow Level Asymmetry", "Elbow asymmetry",
        landmarks.leftElbow, landmarks.rightElbow, ElbowThreshold,
        userCalibration.shoulderWidth,
        Dist2(landmarks.leftShoulder, landmarks.rightShoulder),
        <<"Upper extremity muscle balance">>)

\* 2. scapular level
BackScapularLevel(landmarks, userCalibration) ==
  Level("Scapular Height Asymmetry", "Scapular asymmetry",
        landmarks.leftShoulder, landmarks.rightShoulder, ScapularThreshold,
        userCalibration.shoulderWidth,
        Dist2(landmarks.leftShoulder, landmarks.rightShoulder),
        <<"Scapular stabilization exercises",
          "Focus on "
            \o LowerSide(landmarks.leftShoulder, landmarks.rightShoulder)
            \o " side elevation exercises">>)

\* 3. PSIS level
BackPsisLevel(landmarks, userCalibration) ==
  Level("PSIS Asymmetry", "PSIS asymmetry",
        landmarks.leftHip, landmarks.rightHip, PsisThreshold,
        userCalibration.hipWidth,
        Dist2(landmarks.leftHip, landmarks.rightHip),
        <<"Pelvic rotation assessment",
          "Address pelvic rotation - "
            \o HigherSide(landmarks.leftHip, landmarks.rightHip)
            \o " side posterior rotation">>)

\* 4. gluteal fold.  round(10 * glutealAsymmetry): the largest t with
\* (2t - 1) * (l + r) <= 4000 * (l - r), l the longer length
RECURSIVE GlutealTenths(_, _, _, _)
GlutealTenths(longer2, shorter2, lo, hi) ==
  IF hi - lo <= 1 THEN lo
  ELSE IF ProdLeq((3999 + 2 * ((lo + hi) \div 2))
                    * (3999 + 2 * ((lo + hi) \div 2)),
                  shorter2,
                  (4001 - 2 * ((lo + hi) \div 2))
                    * (4001 - 2 * ((lo + hi) \div 2)),
                  longer2)
  THEN GlutealTenths(longer2, shorter2, (lo + hi) \div 2, hi)
  ELSE GlutealTenths(longer2, shorter2, lo, (lo + hi) \div 2)

\* glutealAsymmetry.toFixed(1): 0 / 0 is NaN
GlutealFixed(left2, right2) ==
  IF left2 = 0 /\ right2 = 0 THEN NaN
  ELSE Num(GlutealTenths(Max(left2, right2), Min(left2, right2), 0, 2001))

GlutealFinding(longerSide, shorterSide, over, percentage) ==
  [percentage |-> percentage,
   pushed |->
     IF over
     THEN Pushed(
            <<[type |-> "Gluteal Fold Asymmetry", longer |-> longerSide,
               shorter |-> shorterSide, percentage |-> percentage]>>,
            <<[mark |-> "warn", about |-> "Gluteal fold asymmetry",
               longer |-> longerSide, shorter |-> shorterSide,
               percentage |-> percentage]>>,
            <<"Gluteal strengthening, focus on " \o shorterSide
                \o " side">>)
     ELSE Nothing]

\* glutealAsymmetry > GlutealThreshold for the lengths sqrt(left2) and
\* sqrt(right2), with glutealAsymmetry = |l - r| / ((l + r) / 2) * 100:
\* (200 - T) * longer > (200 + T) * shorter
GlutealFold(left2, right2) ==
  GlutealFinding(IF left2 > right2 THEN "LEFT" ELSE "RIGHT",
                 IF left2 > right2 THEN "RIGHT" ELSE "LEFT",
                 ProdLess((200 + GlutealThreshold) * (200 + GlutealThreshold),
                          Min(left2, right2),
                          (200 - GlutealThreshold) * (200 - GlutealThreshold),
                          Max(left2, right2)),
                 GlutealFixed(left2, right2))

BackGlutealFold(landmarks) ==
  GlutealFold(Dist2(landmarks.leftHip, landmarks.leftKnee),
              Dist2(landmarks.rightHip, landmarks.rightKnee))

\* 5. popliteal line
BackPoplitealLine(landmarks, userCalibration) ==
  Level("Popliteal Line Asymmetry", "Popliteal asymmetry",
        landmarks.leftKnee, landmarks.rightKnee, PoplitealThreshold,
        userCalibration.hipWidth,
        Dist2(landmarks.leftHip, landmarks.rightHip),
        <<"Hamstring flexibility assessment">>)

\* 6. ankle pronation / supination: the direction of an ankle from the
\* knee-ankle-heel angle
AnkleDirection(ankleAngle) ==
  IF AngLt(ankleAngle, 180) THEN "PRONATION (INWARD)"
  ELSE IF AngGt(ankleAngle, 180) THEN "SUPINATION (OUTWARD)"
  ELSE "NEUTRAL"

\* one ankle, measured when its ankle, heel and foot index are present: the
\* deformity is decided on the deviation, the issue on the printed value
\* read back by parseFloat
BackAnkle(limb, type, present, ankleAngle) ==
  [present |-> present,
   alignment |-> ToFixed1(Deviation180(ankleAngle)),
   direction |-> AnkleDirection(ankleAngle),
   deformities |->
     IF present /\ AngGt(Deviation180(ankleAngle), AnkleThreshold)
     THEN <<[type |-> type, direction |-> AnkleDirection(ankleAngle),
             angle |-> ToFixed1(Deviation180(ankleAngle)), side |-> limb]>>
     ELSE <<>>,
   named |->
     IF present /\ ToFixed1(Deviation180(ankleAngle)) > 10 * AnkleThreshold
     THEN <<AnkleDirection(ankleAngle), ToFixed1(Deviation180(ankleAngle))>>
     ELSE <<>>]

\* direction?.includes(word) for either ankle
EitherAnkle(left, right, direction) ==
  \/ left.present /\ left.direction = direction
  \/ right.present /\ right.direction = direction

BackAnkles(left, right) ==
  [left |-> left,
   right |-> right,
   pushed |->
     IF Len(left.named) > 0 \/ Len(right.named) > 0
     THEN Pushed(
            left.deformities \o right.deformities,
            <<[mark |-> "warn", about |-> "Ankle alignment",
               left |-> left.named, right |-> right.named]>>,
            (IF EitherAnkle(left, right, "PRONATION (INWARD)")
             THEN <<"Ankle pronation control exercises",
                    "Posterior tibialis strengthening",
                    "Arch support assessment">>
             ELSE <<>>)
            \o
            (IF EitherAnkle(left, right, "SUPINATION (OUTWARD)")
             THEN <<"Ankle supination correction exercises",
                    "Peroneal muscle strengthening",
                    "Lateral ankle stability training">>
             ELSE <<>>))
     ELSE Pushed(left.deformities \o right.deformities, <<>>, <<>>)]

\* landmarks[27], [29], [31] (left) and [28], [30], [32] (right) are read
\* when the array reaches them
BackAnkleAlignment(landmarks) ==
  BackAnkles(
    BackAnkle("LEFT", "Left Ankle Malalignment", landmarks.length >= 32,
              calculateAngle(landmarks.leftKnee, landmarks.leftAnkle,
                             landmarks.leftHeel)),
    BackAnkle("RIGHT", "Right Ankle Malalignment", landmarks.length >= 33,
              calculateAngle(landmarks.rightKnee, landmarks.rightAnkle,
                             landmarks.rightHeel)))

\* the measurements an ankle adds when it is present
AnkleMeasured(ankle, alignmentName, directionName) ==
  IF ankle.present
  THEN [n \in {alignmentName, directionName} |->
          IF n = alignmentName THEN ankle.alignment ELSE ankle.direction]
  ELSE <<>>

\* the result of the back view from its sections
BackResult(elbow, scapular, psis, gluteal, popliteal, ankles) ==
  Result(
    Collected(<<elbow, scapular, psis, gluteal, popliteal, ankles>>),
    "Normal posterior alignment",
    [elbowLevel |-> elbow.angle,
     elbowLevelCm |-> elbow.cm,
     scapularLevel |-> scapular.angle,
     scapularLevelCm |-> scapular.cm,
     psisLevel |-> psis.angle,
     psisLevelCm |-> psis.cm,
     glutealFoldAsymmetry |-> gluteal.percentage,
     poplitealLine |-> popliteal.angle,
     poplitealLineCm |-> popliteal.cm]
    @@ AnkleMeasured(ankles.left, "leftAnkleAlignment", "leftAnkleDirection")
    @@ AnkleMeasured(ankles.right, "rightAnkleAlignment",
                     "rightAnkleDirection"))

analyzeBackView(landmarks, userCalibration) ==
  IF IsMissing(landmarks) THEN EmptyResult
  ELSE IF landmarks.length < 27 THEN TypeError
  ELSE BackResult(BackElbowLevel(landmarks, userCalibration),
                  BackScapularLevel(landmarks, userCalibration),
                  BackPsisLevel(landmarks, userCalibration),
                  BackGlutealFold(landmarks),
                  BackPoplitealLine(landmarks, userCalibration),
                  BackAnkleAlignment(landmarks))

(***************************************************************************)
(* Deformity summary                                                        *)
(***************************************************************************)
NeckTolerance == 3
CurvatureTolerance == 5
KneeTolerance == 3

\* measurements.name, undefined when the map has no such entry
Get(measurements, name) ==
  IF name \in DOMAIN measurements THEN measurements[name] ELSE Undefined

\* The double nearest to t / 10 (t in tenths, as printed by toFixed(1)) is
\* t / 10 + c * 2^e / (10 * 2^52), e its binary exponent.  Exp16(t) is
\* 2^(e + 4) and Err(t) is c, the remainder of t * 2^(52 - e) modulo 10
\* taken to the nearest multiple.
RECURSIVE Exp16(_)
Exp16(t) == IF t < 20 THEN IF t < 10 THEN IF t < 5 THEN
                IF t < 3 THEN IF t < 2 THEN 1 ELSE 2 ELSE 4 ELSE 8 ELSE 16
            ELSE 2 * Exp16(t \div 2)

\* 2^(52 - e) modulo 10, from 2^(e + 4): the powers of 2 end in 2, 4, 8, 6
RECURSIVE LastDigitOfShift(_)
LastDigitOfShift(exp16) ==
  IF exp16 = 1 THEN 6
  ELSE LET d == LastDigitOfShift(exp16 \div 2)
       IN  IF d = 6 THEN 8 ELSE IF d = 8 THEN 4 ELSE IF d = 4 THEN 2 ELSE 6

Err(t) ==
  LET r == ((t % 10) * LastDigitOfShift(Exp16(t))) % 10
  IN  IF r < 5 THEN -r ELSE 10 - r

\* Math.abs(parseFloat(left) - parseFloat(right)) > tolerance, for values
\* printed in tenths and a whole tolerance, in double arithmetic: beyond the
\* tolerance in tenths, or at it when the nearest doubles differ by more
\* than half a unit in the last place of the tolerance
ParseFloatDiffExceeds(left, right, tolerance) ==
  LET hi == IF left > right THEN left ELSE right
      lo == IF left > right THEN right ELSE left
      excess == Err(hi) * Exp16(hi) - Err(lo) * Exp16(lo)
      halfUlp == IF tolerance >= 4 THEN 320 ELSE 160
  IN  \/ hi - lo > 10 * tolerance
      \/ hi - lo = 10 * tolerance /\ excess > halfUlp

\* a comparison that reads a missing measurement as 0
OrZero(measurements, name) ==
  IF name \in DOMAIN measurements THEN measurements[name] ELSE 0

CompareMissingAsZero(type, leftMeas, rightMeas, name, typeName, tolerance, views) ==
  IF ParseFloatDiffExceeds(OrZero(leftMeas, name), OrZero(rightMeas, name),
                           tolerance)
  THEN <<[type |-> type,
          moreSevere |-> IF OrZero(leftMeas, name) > OrZero(rightMeas, name)
                         THEN views[1] ELSE views[2],
          leftValue |-> <<OrZero(leftMeas, name), Get(leftMeas, typeName)>>,
          rightValue |-> <<OrZero(rightMeas, name), Get(rightMeas, typeName)>>,
          difference |-> Abs(OrZero(leftMeas, name) - OrZero(rightMeas, name))]>>
  ELSE <<>>

\* one bilateral comparison, or none; a missing measurement parses to NaN
\* and no comparison with NaN holds
Compare(type, leftMeas, rightMeas, name, typeName, tolerance, views) ==
  IF name \notin DOMAIN leftMeas \/ name \notin DOMAIN rightMeas THEN <<>>
  ELSE IF ParseFloatDiffExceeds(leftMeas[name], rightMeas[name], tolerance)
  THEN <<[type |-> type,
          moreSevere |-> IF leftMeas[name] > rightMeas[name]
                         THEN views[1] ELSE views[2],
          leftValue |-> <<leftMeas[name], Get(leftMeas, typeName)>>,
          rightValue |-> <<rightMeas[name], Get(rightMeas, typeName)>>,
          difference |-> Abs(leftMeas[name] - rightMeas[name])]>>
  ELSE <<>>

\* the knee entries of a side view in kneeAnalysis.side, made when the view
\* result has measurements
SideKnees(measurements) ==
  [angle |-> Get(measurements, "leftKneePosition"),
   direction |-> Get(measurements, "leftKneePositionType"),
   rightAngle |-> Get(measurements, "rightKneePosition"),
   rightDirection |-> Get(measurements, "rightKneePositionType")]

\* the front deformities without those of the back
frontDeformities(analysis) == analysis.front.deformities

\* a deformity that has a side of its own keeps it: {side: label, ...def}
sideUnlessOwn(deformities, label) ==
  [i \in 1..Len(deformities) |->
     [f \in DOMAIN deformities[i] \cup {"side"} |->
        IF f \in DOMAIN deformities[i] THEN deformities[i][f] ELSE label]]

\* summary.frontalPlane = analysis.front.deformities, then
\* summary.frontalPlane.push(...analysis.back.deformities)
FrontalPlane(analysis) ==
  analysis.front.deformities \o analysis.back.deformities

\* deformities.forEach(def => sagittalPlane.push({...def, side: label}))
TagSide(deformities, label) ==
  [i \in 1..Len(deformities) |->
     [f \in DOMAIN deformities[i] \cup {"side"} |->
        IF f = "side" THEN label ELSE deformities[i][f]]]

\* generateDeformitySummary(analysis): the summary, and the analysis as the
\* call leaves it.  summary.frontalPlane is the front result's own
\* deformities array, so pushing the back deformities onto it extends
\* analysis.front.deformities as well.  The knee entries are made for every
\* view result with measurements, and every result an analyzer returns has
\* them: that of a view without landmarks has the empty object.
generateDeformitySummary(analysis) ==
  LET frontalPlane == FrontalPlane(analysis)
      leftMeas == analysis.sideLeft.measurements
      rightMeas == analysis.sideRight.measurements
  IN  [summary |->
         [frontalPlane |-> frontalPlane,
          sagittalPlane |->
            TagSide(analysis.sideLeft.deformities, "LEFT")
              \o TagSide(analysis.sideRight.deformities, "RIGHT"),
          bilateralComparison |->
            Compare("Forward Neck Asymmetry", leftMeas, rightMeas,
                    "forwardNeck", "", NeckTolerance, <<"LEFT", "RIGHT">>)
            \o Compare("Thoracic Curvature Asymmetry", leftMeas, rightMeas,
                    "thoracicCurvature", "", CurvatureTolerance,
                    <<"LEFT", "RIGHT">>)
            \o Compare("Lumbar Curvature Asymmetry", leftMeas, rightMeas,
                    "lumbarCurvature", "", CurvatureTolerance,
                    <<"LEFT", "RIGHT">>)
            \o Compare("Left Knee Side-to-Side Variation", leftMeas,
                    rightMeas, "leftKneePosition", "leftKneePositionType",
                    KneeTolerance, <<"LEFT VIEW", "RIGHT VIEW">>)
            \o Compare("Right Knee Side-to-Side Variation", leftMeas,
                    rightMeas, "rightKneePosition", "rightKneePositionType",
                    KneeTolerance, <<"LEFT VIEW", "RIGHT VIEW">>),
          kneeAnalysis |->
            [front |->
               IF "measurements" \in DOMAIN analysis.front
               THEN [left |->
                       [angle |->
                          Get(analysis.front.measurements, "leftKneeAlignment"),
                        direction |->
                          Get(analysis.front.measurements, "leftKneeDirection")],
                     right |->
                       [angle |->
                          Get(analysis.front.measurements, "rightKneeAlignment"),
                        direction |->
                          Get(analysis.front.measurements,
                              "rightKneeDirection")]]
               ELSE <<>>,
             side |->
               [s \in {t \in {"left", "right"} :
                         "measurements" \in
                           DOMAIN (IF t = "left" THEN analysis.sideLeft
                                   ELSE analysis.sideRight)} |->
                  SideKnees(IF s = "left" THEN leftMeas ELSE rightMeas)]]],
       analysis |->
         [analysis EXCEPT !.front.deformities = frontalPlane]]

(***************************************************************************)
(* Exercise protocol                                                        *)
(***************************************************************************)
\* a result with any issue, the normal sentinel included
SomeIssue(analysis, view) ==
  /\ view \in DOMAIN analysis
  /\ Len(analysis[view].issues) > 0

\* result?.issues.some(issue => !issue.includes(check mark))
SomeAbnormal(analysis, view) ==
  /\ view \in DOMAIN analysis
  /\ \E i \in 1..Len(analysis[view].issues) :
       ~IncludesCheckMark(analysis[view].issues[i])

generateExerciseProtocol(analysis) ==
  IF \/ SomeAbnormal(analysis, "front")
     \/ SomeAbnormal(analysis, "sideLeft")
     \/ SomeAbnormal(analysis, "sideRight")
     \/ SomeAbnormal(analysis, "back")
  THEN [exercises |->
          <<"Corrective Exercise Protocol:",
            "Postural awareness training: Daily",
            "Core stabilization: 3 sets x 45 seconds, 5x/week",
            "Shoulder blade squeezes: 3 sets x 12 reps, 5x/week",
            "Hip bridges: 3 sets x 10 reps, 4x/week">>,
        schedule |->
          <<"Follow prescribed exercises consistently for 6-8 weeks">>]
  ELSE [exercises |->
          <<"Maintenance Protocol:",
            "Continue general postural awareness">>,
        schedule |-> <<"General maintenance: 2-3 times per week">>]

\* POST /api/generate-summary, the data string made of analysisData: a line
\* for each entry of the measurements of front, side and back spread into
\* one object, a later view replacing the entry of a name it shares with an
\* earlier one, and a line for each issue of the three without the normal
\* sentinels and without repetitions, or one line when none is left;
\* analysisData.view?.measurements of a missing view adds nothing
generateSummary(analysisData) ==
  LET part(view, field) ==
        IF view \in DOMAIN analysisData THEN analysisData[view][field]
        ELSE <<>>
      front == part("front", "measurements")
      side == part("side", "measurements")
      back == part("back", "measurements")
      allIssues ==
        part("front", "issues") \o part("side", "issues")
          \o part("back", "issues")
      kept ==
        {i \in 1..Len(allIssues) :
           /\ ~IncludesCheckMark(allIssues[i])
           /\ \A j \in 1..(i - 1) : allIssues[j] # allIssues[i]}
  IN  [measurements |->
         [key \in DOMAIN front \cup DOMAIN side \cup DOMAIN back |->
            IF key \in DOMAIN back THEN back[key]
            ELSE IF key \in DOMAIN side THEN side[key] ELSE front[key]],
       issues |->
         IF kept = {}
         THEN <<[mark |-> "none",
                 about |-> "No significant postural deviations detected"]>>
         ELSE [n \in 1..Cardinality(kept) |->
                 allIssues[CHOOSE i \in kept :
                             Cardinality({j \in kept : j <= i}) = n]]]

(***************************************************************************)
(* State                                                                    *)
(***************************************************************************)
VARIABLES
  userCalibration,   \* AnalysisEngine.userCalibration
  calibrationArgs,   \* the arguments of the last setCalibration call
  currentMode,       \* AppState.currentMode
  currentPhase,      \* AppState.currentPhase, the captures made
  capturedData,      \* AppState.capturedData, the landmark sets of it
  uploadedData,      \* AppState.uploadedData, the landmark sets of it
  uploadedImages,    \* AppState.uploadedData, the image of each view
  currentLandmarks,  \* CameraHandler.currentLandmarks
  countdown,         \* the countdownValue of each running capture countdown
  pending,           \* the callbacks awaited: detections and timers
  Elements,          \* the disabled flag of each button
  dataString,        \* what the last request for the narrative sent on
  postureAnalysis,   \* AppState.postureAnalysis
  exerciseProtocol,  \* what the last generateExerciseProtocol call returned
  uncaught           \* the exception the last operation ended with, if any

vars ==
  <<userCalibration, calibrationArgs, currentMode, currentPhase, capturedData,
    uploadedData, postureAnalysis, exerciseProtocol, uncaught, uploadedImages,
    currentLandmarks, countdown, pending, Elements, dataString>>

\* the images, the pose handler, the buttons and the narrative
page ==
  <<uploadedImages, currentLandmarks, countdown, pending, Elements,
    dataString>>

(***************************************************************************)
(* Calibration profile                                                      *)
(***************************************************************************)
Fields == {"headWidth", "shoulderWidth", "hipWidth", "neckLength"}

\* AnalysisEngine.userCalibration as constructed, and the defaults that
\* setCalibration and the save handler fall back to
DefaultCalibration ==
  [headWidth |-> Num(15), shoulderWidth |-> Num(40), hipWidth |-> Num(35),
   neckLength |-> Num(20)]

\* a call that leaves a field without a usable argument as it was
keepCalibration(args) ==
  [f \in Fields |-> OrElse(args[f], userCalibration[f])]

\* userCalibration after setCalibration(args)
setCalibration(args) == [f \in Fields |-> OrElse(args[f], DefaultCalibration[f])]

\* parseFloat of the text of an input box
parseFloat(text) ==
  CASE text = "" -> NaN
    [] text = "abc" -> NaN
    [] text = "0" -> Num(0)
    [] text = "-5" -> Num(-5)
    [] text = "18" -> Num(18)
    [] text = "18cm" -> Num(18)

(***************************************************************************)
(* Poses: the landmark sets the analyzers are run on                        *)
(***************************************************************************)
\* offsets of a landmark from the upright pose are counted in steps
Reach == 3
NeckReach == 5

\* step o of a tilt or shift: 1 the largest offset below the threshold of
\* its metric, 2 the smallest above it, 3 a plain deviation, then further
Step(o, edge, far) ==
  IF o = 0 THEN 0
  ELSE Sign(o) * (IF Abs(o) = 1 THEN edge
                  ELSE IF Abs(o) = 2 THEN edge + 1
                  ELSE far + 10 * (Abs(o) - 3))

\* forward shift of the ears by step o, 108 px above the shoulders:
\* 10.0, 13.0, 16.0, 30.7 and 33.7 degrees of forward neck
EarShift(o) ==
  CASE o = 0 -> 0
    [] o = 1 -> 19
    [] o = 2 -> 25
    [] o = 3 -> 31
    [] o = 4 -> 64
    [] o = 5 -> 72
    [] OTHER -> 72 + 10 * (o - 5)

Landmarks33(points) ==
  [f \in {"tag", "length"} \cup DOMAIN points |->
     IF f = "tag" THEN "array" ELSE IF f = "length" THEN 33 ELSE points[f]]

StandingAxes ==
  {"earTilt", "noseShift", "shoulderTilt", "elbowTilt", "hipTilt",
   "leftKneeBend", "rightKneeBend", "kneeTilt", "leftHeelShift",
   "rightHeelShift"}

\* a person facing the camera (or turned away from it): o gives the step of
\* each axis, coincide names a landmark pair detected at one point
Standing(o, coincide) ==
  LET rightEar == Pt(440, 110)
      rightHip == Pt(395, 600)
  IN  Landmarks33(
        [nose |-> Pt(500 + Step(o.noseShift, 11, 40), 120),
         leftEar |-> IF coincide = "ears" THEN rightEar
                     ELSE Pt(560, 110 + Step(o.earTilt, 6, 30)),
         rightEar |-> rightEar,
         leftShoulder |-> Pt(650, 250 + Step(o.shoulderTilt, 10, 40)),
         rightShoulder |-> Pt(350, 250),
         leftElbow |-> Pt(700, 450 + Step(o.elbowTilt, 20, 50)),
         rightElbow |-> Pt(300, 450),
         leftHip |-> IF coincide = "hips" THEN rightHip
                     ELSE Pt(605, 600 + Step(o.hipTilt, 7, 30)),
         rightHip |-> rightHip,
         leftKnee |-> Pt(605 + Step(o.leftKneeBend, 26, 50),
                         980 + Step(o.kneeTilt, 7, 30)),
         rightKnee |-> Pt(395 + Step(o.rightKneeBend, 26, 50), 980),
         leftAnkle |-> Pt(605, 1360),
         rightAnkle |-> Pt(395, 1360),
         leftHeel |-> Pt(605 + Step(o.leftHeelShift, 6, 30), 1440),
         rightHeel |-> Pt(395 + Step(o.rightHeelShift, 6, 30), 1440),
         leftFootIndex |-> Pt(625, 1460),
         rightFootIndex |-> Pt(375, 1460)])

ProfileAxes ==
  {"earShift", "noseShift", "hipShift", "leftKneeShift", "rightKneeShift"}

\* a person seen from the side: left and right landmarks overlap
Profile(o) ==
  LET ear == Pt(500 + EarShift(Abs(o.earShift)), 142)
      hip == Pt(500 + Step(o.hipShift, 61, 200), 600)
  IN  Landmarks33(
        [nose |-> Pt(500 + Step(o.noseShift, 27, 60), 120),
         leftEar |-> ear,
         rightEar |-> ear,
         leftShoulder |-> Pt(500, 250),
         rightShoulder |-> Pt(500, 250),
         leftElbow |-> Pt(500, 450),
         rightElbow |-> Pt(500, 450),
         leftHip |-> hip,
         rightHip |-> hip,
         leftKnee |-> Pt(500 + Step(o.leftKneeShift, 16, 50), 980),
         rightKnee |-> Pt(500 + Step(o.rightKneeShift, 16, 50), 980),
         leftAnkle |-> Pt(500, 1360),
         rightAnkle |-> Pt(500, 1360),
         leftHeel |-> Pt(490, 1440),
         rightHeel |-> Pt(490, 1440),
         leftFootIndex |-> Pt(560, 1460),
         rightFootIndex |-> Pt(560, 1460)])

\* the steps of a pose that leaves the upright pose on at most two axes
Shifted(axes, a1, o1, a2, o2) ==
  [a \in axes |-> IF a = a1 THEN o1 ELSE IF a = a2 THEN o2 ELSE 0]

Upright == Standing(Shifted(StandingAxes, "hipTilt", 0, "hipTilt", 0), "none")
UprightProfile ==
  Profile(Shifted(ProfileAxes, "earShift", 0, "earShift", 0))

\* standing poses off the upright pose on a pair of axes moved together, and
\* poses with a
\* coincident landmark pair off it on one axis
FrontPoses ==
  {Standing(Shifted(StandingAxes, g[1], o1, g[2], o2), "none") :
     g \in {<<"leftKneeBend", "rightKneeBend">>, <<"hipTilt", "kneeTilt">>,
            <<"shoulderTilt", "elbowTilt">>, <<"earTilt", "noseShift">>},
     o1 \in -Reach..Reach, o2 \in -Reach..Reach}
  \cup {Standing(Shifted(StandingAxes, a, o, a, o), c) :
          a \in {"hipTilt", "kneeTilt"}, o \in -Reach..Reach, c \in {"ears", "hips"}}

BackPoses ==
  {Standing(Shifted(StandingAxes, g[1], o1, g[2], o2), "none") :
     g \in {<<"leftHeelShift", "rightHeelShift">>, <<"hipTilt", "kneeTilt">>,
            <<"shoulderTilt", "elbowTilt">>},
     o1 \in -Reach..Reach, o2 \in -Reach..Reach}
  \cup {Standing(Shifted(StandingAxes, a, o, a, o), "hips") :
          a \in {"hipTilt", "kneeTilt"}, o \in -Reach..Reach}

\* side poses off the upright profile on one axis, axis by axis
ProfileFamily(a) ==
  IF a = "earShift"
  THEN {Profile(Shifted(ProfileAxes, a, o, a, o)) : o \in 0..NeckReach}
  ELSE {Profile(Shifted(ProfileAxes, a, o, a, o)) : o \in -Reach..Reach}

ProfilePoses == UNION {ProfileFamily(a) : a \in ProfileAxes}

\* Landmarks detected anywhere: the places of a 3 x 3 lattice whose middle
\* column is the upright left leg, hip over knee over ankle
Places == {Pt(x, y) : x \in {340, 605, 870}, y \in {600, 980, 1360}}

\* a landmark set with the landmarks of at detected where at puts them
Placed(pose, at) ==
  [f \in DOMAIN pose |-> IF f \in DOMAIN at THEN at[f] ELSE pose[f]]

\* the landmarks that one section of an analyzer reads, placed together,
\* the others upright
FrontPlacements ==
  UNION {{Placed(Upright, at) : at \in [group -> Places]} :
           group \in {{"leftHip", "leftKnee", "leftAnkle"},
                      {"rightHip", "rightKnee", "rightAnkle"},
                      {"nose", "leftShoulder", "rightShoulder"},
                      {"leftEar", "rightEar"}, {"leftElbow", "rightElbow"},
                      {"leftHip", "rightHip"}, {"leftKnee", "rightKnee"}}}

\* in a side view the left and the right landmark of a part overlap: both
\* are where at puts the part
ProfilePlacements ==
  LET Paired(at) ==
        [n \in UNION {{"left" \o part, "right" \o part} :
                        part \in DOMAIN at} |->
           at[CHOOSE part \in DOMAIN at :
                n \in {"left" \o part, "right" \o part}]]
  IN  UNION {{Placed(UprightProfile, Paired(at)) :
                at \in [group -> Places]} :
               group \in {{"Ear", "Shoulder", "Hip"},
                          {"Shoulder", "Hip", "Knee"},
                          {"Hip", "Knee", "Ankle"}}}

BackPlacements ==
  UNION {{Placed(Upright, at) : at \in [group -> Places]} :
           group \in {{"leftKnee", "leftAnkle", "leftHeel"},
                      {"rightKnee", "rightAnkle", "rightHeel"},
                      {"leftShoulder", "rightShoulder"},
                      {"leftElbow", "rightElbow"},
                      {"leftHip", "rightHip"}, {"leftKnee", "rightKnee"}}}

(***************************************************************************)
(* Sessions and the initial state                                          *)
(***************************************************************************)
Views == {"front", "sideLeft", "sideRight", "back"}

\* AppState.phases, the views in the order of their capture
phases == <<"front", "sideLeft", "sideRight", "back">>

\* capturedData / uploadedData with no landmark set
NoData ==
  [frontLandmarks |-> NullLandmarks, sideLeftLandmarks |-> NullLandmarks,
   sideRightLandmarks |-> NullLandmarks, backLandmarks |-> NullLandmarks]

Data(front, sideLeft, sideRight, back) ==
  [frontLandmarks |-> front, sideLeftLandmarks |-> sideLeft,
   sideRightLandmarks |-> sideRight, backLandmarks |-> back]

NoAnalysis == [tag |-> "null"]

\* uploadedData.front and the like with no image; an image is modelled by
\* what the pose detection finds in it, a landmark set or none
NoImage == [tag |-> "no image"]
NoCall == <<>>
NoProtocol == <<>>

\* a session whose centimeter values show all four calibration values; its
\* shoulders are tilted by just under 2 degrees
Leaning ==
  Data(Standing([Shifted(StandingAxes, "earTilt", 3, "noseShift", 3)
                   EXCEPT !.shoulderTilt = 1], "none"),
       Profile(Shifted(ProfileAxes, "earShift", 3, "earShift", 3)),
       NullLandmarks,
       Standing([Shifted(StandingAxes, "hipTilt", 3, "kneeTilt", 3)
                   EXCEPT !.shoulderTilt = 1], "none"))

\* what pose detection gives for a person posing for the four views: the
\* leaning session and a right side view with the left knee ahead
Posing ==
  [Leaning EXCEPT !.sideRightLandmarks =
     Profile(Shifted(ProfileAxes, "leftKneeShift", 3, "hipShift", 2))]

\* the sessions explored: one standing view alone over all its poses; both
\* side views, each absent or the two off the upright profile on the same
\* axis; all four views, upright but for one standing view; the views of
\* the person posing, each view there or not; one landmark set, hips and
\* knees tilted, as the front and as the back view
Sessions ==
  {[v \in DOMAIN Posing |->
      IF v \in present THEN Posing[v] ELSE NullLandmarks] :
     present \in SUBSET DOMAIN Posing}
  \cup
  {Data(f, NullLandmarks, NullLandmarks, NullLandmarks) :
     f \in FrontPoses \cup {NullLandmarks, EmptyLandmarks}}
  \cup
  {Data(NullLandmarks, NullLandmarks, NullLandmarks, b) :
     b \in BackPoses \cup {NullLandmarks, EmptyLandmarks}}
  \cup
  {Data(NullLandmarks, l, r, NullLandmarks) :
     l \in ProfilePoses \cup {NullLandmarks, EmptyLandmarks}, r \in {NullLandmarks, EmptyLandmarks}}
  \cup
  {Data(NullLandmarks, l, r, NullLandmarks) :
     l \in {NullLandmarks, EmptyLandmarks}, r \in ProfilePoses}
  \cup
  UNION {{Data(NullLandmarks, l, r, NullLandmarks) :
            l \in ProfileFamily(a), r \in ProfileFamily(a)} :
           a \in ProfileAxes}
  \cup
  {Data(f, UprightProfile, UprightProfile, Upright) :
     f \in {p \in FrontPoses : p.leftEar = p.rightEar \/ p.leftHip = p.rightHip}
             \cup {Upright}}
  \cup
  {Data(Upright, UprightProfile, UprightProfile, b) :
     b \in {p \in BackPoses : p.leftHip = p.rightHip}}
  \cup
  {Data(p, NullLandmarks, NullLandmarks, p) : p \in FrontPoses \cap BackPoses}

\* the page at the call of the analysis of a session: in camera mode the
\* last countdown has ended and processCapturedImage() is at its call of
\* analyzePosture(); in upload mode every view has its image and the timer
\* of analyzeUploads() is at its call of analyzeUploadedPosture()
AtAnalysis(data) ==
  /\ currentPhase = IF currentMode = "camera" THEN Len(phases) ELSE 0
  /\ capturedData = IF currentMode = "camera" THEN data ELSE NoData
  /\ uploadedData = IF currentMode = "upload" THEN data ELSE NoData
  /\ uploadedImages =
       [v \in Views |->
          IF currentMode = "upload" THEN data[v \o "Landmarks"] ELSE NoImage]
  /\ currentLandmarks =
       LET found == {v \in Views : data[v \o "Landmarks"] # NullLandmarks}
       IN  IF currentMode = "camera" THEN data.backLandmarks
           ELSE IF found = {} THEN NullLandmarks
           ELSE data[(CHOOSE v \in found : TRUE) \o "Landmarks"]
  /\ countdown = <<>>
  /\ pending = <<>>
  /\ dataString = <<>>
  /\ Elements =
       [startBtn |-> currentMode = "camera", captureBtn |-> TRUE,
        downloadBtn |-> currentMode # "camera", analyzeUploadsBtn |-> TRUE,
        downloadUploadBtn |-> TRUE]

Init ==
  /\ userCalibration = DefaultCalibration
  /\ calibrationArgs = NoCall
  /\ currentMode \in {"camera", "upload"}
  /\ \E data \in Sessions : AtAnalysis(data)
  /\ postureAnalysis = NoAnalysis
  /\ exerciseProtocol = NoProtocol
  /\ uncaught = "none"

(***************************************************************************)
(* Operations                                                               *)
(***************************************************************************)
\* what analyzePosture and analyzeUploadedPosture store: the four view
\* results and the summary made of them
WithSummary(generated) ==
  [front |-> generated.analysis.front,
   sideLeft |-> generated.analysis.sideLeft,
   sideRight |-> generated.analysis.sideRight,
   back |-> generated.analysis.back,
   deformitySummary |-> generated.summary]

\* the end of both: an analyzer that threw leaves the stored analysis as it
\* was, the exception reaching the caller
Store(analysis) ==
  IF \E v \in Views : Threw(analysis[v])
  THEN /\ uncaught' = "TypeError"
       /\ UNCHANGED postureAnalysis
  ELSE /\ uncaught' = "none"
       /\ postureAnalysis' = WithSummary(generateDeformitySummary(analysis))

\* an analysis of the views with landmarks alone, the stored result of a
\* view without them kept
analyzePresent(data) ==
  LET kept(view, result) ==
        IF /\ data[view \o "Landmarks"] = NullLandmarks
           /\ postureAnalysis # NoAnalysis
        THEN postureAnalysis[view] ELSE result
  IN  Store([front |->
               kept("front",
                    analyzeFrontView(data.frontLandmarks, userCalibration)),
             sideLeft |->
               kept("sideLeft",
                    analyzeSideView(data.sideLeftLandmarks, "left",
                                    userCalibration)),
             sideRight |->
               kept("sideRight",
                    analyzeSideView(data.sideRightLandmarks, "right",
                                    userCalibration)),
             back |->
               kept("back",
                    analyzeBackView(data.backLandmarks, userCalibration))])

\* the four analyzer calls and the summary of analyzePosture and of
\* analyzeUploadedPosture, on the landmark sets of data
Analyze(data) ==
  Store([front |-> analyzeFrontView(data.frontLandmarks, userCalibration),
         sideLeft |->
           analyzeSideView(data.sideLeftLandmarks, "left", userCalibration),
         sideRight |->
           analyzeSideView(data.sideRightLandmarks, "right", userCalibration),
         back |-> analyzeBackView(data.backLandmarks, userCalibration)])

analyzePosture ==
  /\ currentMode = "camera"
  /\ Analyze(capturedData)
  /\ UNCHANGED <<userCalibration, calibrationArgs, currentMode,
                 currentPhase, capturedData, uploadedData, exerciseProtocol>>
  /\ UNCHANGED page

analyzeUploadedPosture ==
  /\ currentMode = "upload"
  /\ Analyze(uploadedData)
  /\ UNCHANGED <<userCalibration, calibrationArgs, currentMode,
                 currentPhase, capturedData, uploadedData, exerciseProtocol>>
  /\ UNCHANGED page

\* switchToCamera() and switchToUpload(): the mode, then resetAnalysis(),
\* which empties both sessions and the stored analysis and disables the
\* download and analyze buttons; the phase, the capture and start buttons,
\* currentLandmarks and every callback awaited stay
switchTo(mode) ==
  /\ currentMode' = mode
  /\ capturedData' = NoData
  /\ uploadedData' = NoData
  /\ uploadedImages' = [v \in Views |-> NoImage]
  /\ postureAnalysis' = NoAnalysis
  /\ Elements' = [Elements EXCEPT !.downloadBtn = TRUE,
                                  !.downloadUploadBtn = TRUE,
                                  !.analyzeUploadsBtn = TRUE]
  /\ uncaught' = "none"
  /\ UNCHANGED <<userCalibration, calibrationArgs, currentPhase,
                 exerciseProtocol, dataString, currentLandmarks, countdown, pending>>

\* click on startBtn, shown in camera mode: CameraHandler.startAnalysis()
\* disables it, enables captureBtn, and sets the first phase and an empty
\* captured session; the stored analysis stays; the camera starts
startAnalysis ==
  /\ currentMode = "camera"
  /\ ~Elements.startBtn
  /\ Elements' = [Elements EXCEPT !.startBtn = TRUE, !.captureBtn = FALSE]
  /\ currentPhase' = 0
  /\ capturedData' = NoData
  /\ uncaught' = "none"
  /\ UNCHANGED <<userCalibration, calibrationArgs, currentMode, uploadedData,
                 postureAnalysis, exerciseProtocol, dataString, uploadedImages,
                 currentLandmarks, countdown, pending>>

\* CameraHandler.onResults(results), results.poseLandmarks a landmark set
\* or nothing: in camera mode currentLandmarks follows it, in upload mode
\* a result without a pose leaves currentLandmarks as it was
onResults(poseLandmarks) ==
  /\ currentLandmarks' =
       IF currentMode = "camera" \/ poseLandmarks # NullLandmarks
       THEN poseLandmarks ELSE currentLandmarks
  /\ UNCHANGED <<userCalibration, calibrationArgs, currentMode, currentPhase,
                 capturedData, uploadedData, postureAnalysis,
                 exerciseProtocol, dataString, uncaught, uploadedImages, countdown,
                 Elements>>

\* a frame of the started camera, sent to the pose detection
onFrame(poseLandmarks) ==
  /\ Elements.startBtn
  /\ onResults(poseLandmarks)
  /\ UNCHANGED pending

\* captureImage leaving captureBtn enabled during the countdown
captureImageEnabled ==
  /\ currentMode = "camera"
  /\ ~Elements.captureBtn
  /\ currentLandmarks # NullLandmarks
  /\ countdown' = Append(countdown, 3)
  /\ UNCHANGED <<userCalibration, calibrationArgs, currentMode, currentPhase,
                 capturedData, uploadedData, postureAnalysis,
                 exerciseProtocol, dataString, uncaught, uploadedImages,
                 currentLandmarks, pending, Elements>>

\* click on captureBtn, shown in camera mode: CameraHandler.captureImage()
\* returns after an alert when no pose is detected, else disables the
\* button and starts a countdown at 3
captureImage ==
  /\ currentMode = "camera"
  /\ ~Elements.captureBtn
  /\ currentLandmarks # NullLandmarks
  /\ countdown' = Append(countdown, 3)
  /\ Elements' = [Elements EXCEPT !.captureBtn = TRUE]
  /\ UNCHANGED <<userCalibration, calibrationArgs, currentMode, currentPhase,
                 capturedData, uploadedData, postureAnalysis,
                 exerciseProtocol, dataString, uncaught, uploadedImages,
                 currentLandmarks, pending>>

\* CameraHandler.processCapturedImage(): landmarks, the currentLandmarks of
\* the moment, null when no pose is detected then, become the landmarks of
\* the phase; captureBtn is enabled again, or after the last phase
\* downloadBtn is and analyzePosture() runs; past the last phase
\* phases[currentPhase] is undefined
processCapturedImage(landmarks) ==
  /\ IF currentPhase < Len(phases)
     THEN LET captured ==
                [capturedData EXCEPT
                   ![phases[currentPhase + 1] \o "Landmarks"] = landmarks]
          IN  /\ capturedData' = captured
              /\ currentPhase' = currentPhase + 1
              /\ IF currentPhase + 1 < Len(phases)
                 THEN /\ Elements' = [Elements EXCEPT !.captureBtn = FALSE]
                      /\ uncaught' = "none"
                      /\ UNCHANGED postureAnalysis
                 ELSE /\ Elements' = [Elements EXCEPT !.captureBtn = TRUE,
                                                      !.downloadBtn = FALSE]
                      /\ Analyze(captured)
     ELSE /\ uncaught' = "TypeError"
          /\ UNCHANGED <<capturedData, currentPhase, Elements,
                         postureAnalysis>>
  /\ UNCHANGED <<userCalibration, calibrationArgs, currentMode, uploadedData,
                 exerciseProtocol, dataString, uploadedImages, currentLandmarks, pending>>

\* a tick of the countdown i: countdownValue falls by one, and below 0 the
\* countdown ends and processCapturedImage() runs
countdownInterval(i) ==
  IF countdown[i] - 1 < 0
  THEN /\ countdown' = SubSeq(countdown, 1, i - 1)
                         \o SubSeq(countdown, i + 1, Len(countdown))
       /\ processCapturedImage(currentLandmarks)
  ELSE /\ countdown' = [countdown EXCEPT ![i] = countdown[i] - 1]
       /\ UNCHANGED <<userCalibration, calibrationArgs, currentMode,
                      currentPhase, capturedData, uploadedData,
                      postureAnalysis, exerciseProtocol, dataString, uncaught,
                      uploadedImages, currentLandmarks, pending, Elements>>

\* pending without its callback i
Called(i) == SubSeq(pending, 1, i - 1) \o SubSeq(pending, i + 1, Len(pending))

\* the callback i may be the next one called: the detections end in the
\* order of their images, timers of one delay in the order they were set,
\* and a 500 ms timer set before a 2000 ms timer before it
Due(i) ==
  \A j \in 1..(i - 1) :
    /\ pending[j].callback # pending[i].callback
    /\ ~(pending[j].callback = "store" /\ pending[i].callback = "analyze")

\* an image chosen for a view, shown in upload mode: handleImageUpload
\* stores it, checkUploadCompletion() enables analyzeUploadsBtn once every
\* view has its image, and processUploadedImage sends the image to the
\* pose detection; img is what the detection finds in the image
handleImageUpload(view, img) ==
  /\ currentMode = "upload"
  /\ uploadedImages' = [uploadedImages EXCEPT ![view] = img]
  /\ Elements' =
       [Elements EXCEPT !.analyzeUploadsBtn =
          \E v \in Views \ {view} : uploadedImages[v] = NoImage]
  /\ pending' =
       Append(pending, [callback |-> "send", view |-> view, image |-> img])
  /\ UNCHANGED <<userCalibration, calibrationArgs, currentMode, currentPhase,
                 capturedData, uploadedData, postureAnalysis,
                 exerciseProtocol, dataString, uncaught, currentLandmarks, countdown>>

\* the detection of an uploaded image ends: onResults with what it found,
\* then processUploadedImage sets its timer of 500 ms
poseSend(i) ==
  /\ pending[i].callback = "send"
  /\ Due(i)
  /\ onResults(pending[i].image)
  /\ pending' = Append(Called(i), [pending[i] EXCEPT !.callback = "store"])

\* the timer of CameraHandler.processUploadedImage(img, view): landmarks,
\* the currentLandmarks of the moment, replace the landmarks of the view
\* unless they are null
processUploadedImage(view, landmarks) ==
  /\ uploadedData' =
       IF landmarks # NullLandmarks
       THEN [uploadedData EXCEPT ![view \o "Landmarks"] = landmarks]
       ELSE uploadedData
  /\ uncaught' = "none"
  /\ UNCHANGED <<userCalibration, calibrationArgs, currentMode, currentPhase,
                 capturedData, postureAnalysis, exerciseProtocol, dataString,
                 uploadedImages, currentLandmarks, countdown, Elements>>

\* the 500 ms timer i is due
storeTimeout(i) ==
  /\ pending[i].callback = "store"
  /\ Due(i)
  /\ processUploadedImage(pending[i].view, currentLandmarks)
  /\ pending' = Called(i)

\* click on analyzeUploadsBtn, shown in upload mode: analyzeUploads()
\* disables it and sets the timer of 2000 ms
analyzeUploads ==
  /\ currentMode = "upload"
  /\ ~Elements.analyzeUploadsBtn
  /\ Elements' = [Elements EXCEPT !.analyzeUploadsBtn = TRUE]
  /\ pending' =
       Append(pending,
              [callback |-> "analyze", view |-> "", image |-> NoImage])
  /\ UNCHANGED <<userCalibration, calibrationArgs, currentMode, currentPhase,
                 capturedData, uploadedData, postureAnalysis,
                 exerciseProtocol, dataString, uncaught, uploadedImages,
                 currentLandmarks, countdown>>

\* the 2000 ms timer i is due: analyzeUploadedPosture() runs and, unless it
\* threw, downloadUploadBtn is enabled
analysisTimeout(i) ==
  /\ pending[i].callback = "analyze"
  /\ Due(i)
  /\ Analyze(uploadedData)
  /\ Elements' =
       IF uncaught' = "none"
       THEN [Elements EXCEPT !.downloadUploadBtn = FALSE] ELSE Elements
  /\ pending' = Called(i)
  /\ UNCHANGED <<userCalibration, calibrationArgs, currentMode, currentPhase,
                 capturedData, uploadedData, exerciseProtocol, dataString,
                 uploadedImages, currentLandmarks, countdown>>

\* click on the download button of the mode, enabled and with an analysis
\* stored: PDFGenerator.generateAISummary(AppState.postureAnalysis) posts
\* the analysis to /api/generate-summary
generateAISummary ==
  /\ ~(IF currentMode = "camera" THEN Elements.downloadBtn
       ELSE Elements.downloadUploadBtn)
  /\ postureAnalysis # NoAnalysis
  /\ dataString' = generateSummary(postureAnalysis)
  /\ UNCHANGED <<userCalibration, calibrationArgs, currentMode, currentPhase,
                 capturedData, uploadedData, postureAnalysis,
                 exerciseProtocol, uncaught, uploadedImages,
                 currentLandmarks, countdown, pending, Elements>>

\* generateExerciseProtocol on the stored analysis, or on it with one of its
\* view results left out
GenerateExerciseProtocol(present) ==
  /\ postureAnalysis # NoAnalysis
  /\ exerciseProtocol' =
       [present |-> present,
        returned |->
          generateExerciseProtocol([v \in present |-> postureAnalysis[v]])]
  /\ uncaught' = "none"
  /\ UNCHANGED <<userCalibration, calibrationArgs, currentMode,
                 currentPhase, capturedData, uploadedData, postureAnalysis>>
  /\ UNCHANGED page

\* AnalysisEngine.setCalibration(headWidth, shoulderWidth, hipWidth,
\* neckLength)
SetCalibration(args) ==
  /\ userCalibration' = setCalibration(args)
  /\ calibrationArgs' = args
  /\ uncaught' = "none"
  /\ UNCHANGED <<currentMode, currentPhase, capturedData, uploadedData,
                 postureAnalysis, exerciseProtocol>>
  /\ UNCHANGED page

\* what the click handler of saveCalibrationBtn passes on, the four input
\* boxes holding text: parseFloat(value) || default
Entered(text) ==
  [f \in Fields |-> OrElse(parseFloat(text[f]), DefaultCalibration[f])]

\* click on saveCalibrationBtn
SaveCalibrationClick(text) ==
  /\ userCalibration' = setCalibration(Entered(text))
  /\ calibrationArgs' = Entered(text)
  /\ uncaught' = "none"
  /\ UNCHANGED <<currentMode, currentPhase, capturedData, uploadedData,
                 postureAnalysis, exerciseProtocol>>
  /\ UNCHANGED page

\* click on useDefaultsBtn
UseDefaultsClick ==
  /\ userCalibration' = setCalibration(DefaultCalibration)
  /\ calibrationArgs' = DefaultCalibration
  /\ uncaught' = "none"
  /\ UNCHANGED <<currentMode, currentPhase, capturedData, uploadedData,
                 postureAnalysis, exerciseProtocol>>
  /\ UNCHANGED page

Next ==
  \/ analyzePosture
  \/ analyzeUploadedPosture
  \/ \E present \in {Views} \cup {Views \ {v} : v \in Views} :
       GenerateExerciseProtocol(present)

Spec == Init /\ [][Next]_vars

\* the calibration profile on its own, under every call and every click
\* and the page as loaded, startBtn alone enabled
InitCalibration ==
  /\ userCalibration = DefaultCalibration
  /\ calibrationArgs = NoCall
  /\ currentMode = "camera"
  /\ currentPhase = 0
  /\ capturedData = NoData
  /\ uploadedData = NoData
  /\ uploadedImages = [v \in Views |-> NoImage]
  /\ currentLandmarks = NullLandmarks
  /\ countdown = <<>>
  /\ pending = <<>>
  /\ dataString = <<>>
  /\ Elements =
       [startBtn |-> FALSE, captureBtn |-> TRUE, downloadBtn |-> TRUE,
        analyzeUploadsBtn |-> TRUE, downloadUploadBtn |-> TRUE]
  /\ postureAnalysis = NoAnalysis
  /\ exerciseProtocol = NoProtocol
  /\ uncaught = "none"

\* what the caller of setCalibration may pass for a field, and what the
\* input boxes may hold
NextCalibration ==
  \/ \E args \in [Fields -> {Undefined, Num(0), NaN, Num(-5), Str, Num(18)}] :
       SetCalibration(args)
  \/ \E text \in [Fields -> {"", "abc", "0", "-5", "18", "18cm"}] :
       SaveCalibrationClick(text)
  \/ UseDefaultsClick

SpecCalibration == InitCalibration /\ [][NextCalibration]_vars

\* the calibration profile and the analyses together: every call with each
\* argument absent, zero or 18, a call for broad shoulders of 50 cm, and the
\* analysis of the leaning session
InitProfile ==
  /\ userCalibration = DefaultCalibration
  /\ calibrationArgs = NoCall
  /\ currentMode \in {"camera", "upload"}
  /\ AtAnalysis(Leaning)
  /\ postureAnalysis = NoAnalysis
  /\ exerciseProtocol = NoProtocol
  /\ uncaught = "none"

NextProfile ==
  \/ \E args \in [Fields -> {Undefined, Num(0), Num(18)}]
                  \cup {[DefaultCalibration EXCEPT !.shoulderWidth = Num(50)]} :
       SetCalibration(args)
  \/ UseDefaultsClick
  \/ analyzePosture
  \/ analyzeUploadedPosture

SpecProfile == InitProfile /\ [][NextProfile]_vars

\* the analyzers on landmarks detected anywhere: one view with the landmarks
\* of one group on any places, the other landmarks upright
InitPlacement ==
  /\ userCalibration = DefaultCalibration
  /\ calibrationArgs = NoCall
  /\ currentMode \in {"camera", "upload"}
  /\ \E data \in
         {Data(f, NullLandmarks, NullLandmarks, NullLandmarks) :
            f \in FrontPlacements}
         \cup {Data(NullLandmarks, l, NullLandmarks, NullLandmarks) :
                 l \in ProfilePlacements}
         \cup {Data(NullLandmarks, NullLandmarks, r, NullLandmarks) :
                 r \in ProfilePlacements}
         \cup {Data(NullLandmarks, NullLandmarks, NullLandmarks, b) :
                 b \in BackPlacements} :
       AtAnalysis(data)
  /\ postureAnalysis = NoAnalysis
  /\ exerciseProtocol = NoProtocol
  /\ uncaught = "none"

NextPlacement ==
  \/ analyzePosture
  \/ analyzeUploadedPosture

SpecPlacement == InitPlacement /\ [][NextPlacement]_vars

\* a page in use: the mode switched, captures phase by phase with or without
\* a pose detected, uploads in any order, a calibration for broad shoulders,
\* the analyses and the download of the report
NextSession ==
  \/ \E mode \in {"camera", "upload"} : switchTo(mode)
  \/ startAnalysis
  \/ \E landmarks \in
          {Posing[phases[p] \o "Landmarks"] :
             p \in {currentPhase + 1} \cap DOMAIN phases}
          \cup {NullLandmarks} :
       /\ currentMode = "camera"
       /\ ~Elements.captureBtn
       /\ processCapturedImage(landmarks)
       /\ UNCHANGED countdown
  \/ \E view \in Views :
       /\ currentMode = "upload"
       /\ processUploadedImage(view, Posing[view \o "Landmarks"])
       /\ UNCHANGED pending
  \/ analyzeUploadedPosture
  \/ SetCalibration([DefaultCalibration EXCEPT !.shoulderWidth = Num(50)])
  \/ generateAISummary

SpecSession == InitCalibration /\ [][NextSession]_vars

\* the camera session callback by callback: the mode switched, the session
\* started, frames in which the person poses for the phase or no pose is
\* found, clicks on captureBtn and the ticks of the countdowns
NextCamera ==
  \/ \E mode \in {"camera", "upload"} : switchTo(mode)
  \/ startAnalysis
  \/ \E poseLandmarks \in
          {Posing[phases[p] \o "Landmarks"] :
             p \in {currentPhase + 1} \cap DOMAIN phases}
          \cup {NullLandmarks} :
       onFrame(poseLandmarks)
  \/ captureImage
  \/ \E i \in DOMAIN countdown : countdownInterval(i)

SpecCamera == InitCalibration /\ [][NextCamera]_vars

\* the callbacks awaited at a time in the uploads explored
MaxPending == 2

\* the uploads callback by callback: the mode switched, the image of each
\* view chosen in the order of the phases and once between two resets, the
\* person posing for the view in it or, for the left side view, no pose
\* found in it, the detections, the timers and the click on
\* analyzeUploadsBtn
NextUpload ==
  \/ \E mode \in {"camera", "upload"} : switchTo(mode)
  \/ \E p \in DOMAIN phases :
       \E img \in {Posing[phases[p] \o "Landmarks"]}
                    \cup {NullLandmarks : v \in {phases[p]} \cap {"sideLeft"}} :
         /\ Len(pending) < MaxPending
         /\ \A q \in DOMAIN phases :
              uploadedImages[phases[q]] = NoImage <=> q >= p
         /\ handleImageUpload(phases[p], img)
  \/ \E i \in DOMAIN pending : poseSend(i)
  \/ \E i \in DOMAIN pending : storeTimeout(i)
  \/ Len(pending) < MaxPending /\ analyzeUploads
  \/ \E i \in DOMAIN pending : analysisTimeout(i)

SpecUpload == InitCalibration /\ [][NextUpload]_vars

(***************************************************************************)
(* Properties                                                               *)
(***************************************************************************)
\* the landmark sets under analysis
Session == IF currentMode = "camera" THEN capturedData ELSE uploadedData

Analysed == postureAnalysis # NoAnalysis

\* null, or an array of length 0
NoLandmarks(landmarks) ==
  landmarks = NullLandmarks \/ landmarks = EmptyLandmarks

\* a result returned normally with nothing in it
AllEmpty(result) ==
  /\ ~Threw(result)
  /\ result.issues = <<>>
  /\ result.recommendations = <<>>
  /\ result.deformities = <<>>
  /\ DOMAIN result.measurements = {}

\* the issues of a result other than the normal sentinel
AbnormalIssues(result) ==
  {i \in 1..Len(result.issues) : result.issues[i].mark # "ok"}

\* C1: each analyzer, given a missing (null) or empty landmark set, returns
\* a result with no issues, no recommendations, no deformities and an empty
\* measurements map, and the call does not throw: so for every landmark set
\* of the session that is missing, and no analysis of such a session ends
\* with an exception.
C1_MissingLandmarksGiveEmptyResult ==
  /\ NoLandmarks(Session.frontLandmarks) =>
       AllEmpty(analyzeFrontView(Session.frontLandmarks, userCalibration))
  /\ NoLandmarks(Session.sideLeftLandmarks) =>
       AllEmpty(analyzeSideView(Session.sideLeftLandmarks, "left",
                                userCalibration))
  /\ NoLandmarks(Session.sideRightLandmarks) =>
       AllEmpty(analyzeSideView(Session.sideRightLandmarks, "right",
                                userCalibration))
  /\ NoLandmarks(Session.backLandmarks) =>
       AllEmpty(analyzeBackView(Session.backLandmarks, userCalibration))
  /\ uncaught = "none"
  /\ Analysed =>
       /\ NoLandmarks(Session.sideLeftLandmarks) =>
            AllEmpty(postureAnalysis.sideLeft)
       /\ NoLandmarks(Session.sideRightLandmarks) =>
            AllEmpty(postureAnalysis.sideRight)
       /\ NoLandmarks(Session.backLandmarks) =>
            AllEmpty(postureAnalysis.back)

\* an analysis was stored of a session whose front set is null and whose
\* back set is the empty array, both results empty
C1_Witness ==
  /\ Analysed
  /\ uncaught = "none"
  /\ Session.frontLandmarks = NullLandmarks
  /\ Session.backLandmarks = EmptyLandmarks
  /\ AllEmpty(postureAnalysis.front)
  /\ AllEmpty(postureAnalysis.back)

\* the session of a symmetric, perfectly upright person in all four views
UprightSession == Data(Upright, UprightProfile, UprightProfile, Upright)

\* C2: for the symmetric, perfectly upright landmark set in every view, no
\* analyzer reports an abnormal issue and the summary has empty
\* frontalPlane, sagittalPlane and bilateralComparison.
C2_UprightHasNoFindings ==
  (Analysed /\ Session = UprightSession) =>
    /\ \A v \in Views : AbnormalIssues(postureAnalysis[v]) = {}
    /\ postureAnalysis.deformitySummary.frontalPlane = <<>>
    /\ postureAnalysis.deformitySummary.sagittalPlane = <<>>
    /\ postureAnalysis.deformitySummary.bilateralComparison = <<>>

\* a knee displaced sideways by offset from the line of hip and ankle,
\* which are 380 px above and below it: 50 px bend the joint by 15.0 degrees
KneeOff(hip, knee, ankle, offset) ==
  /\ hip.x = ankle.x
  /\ knee.x - hip.x = offset
  /\ knee.y - hip.y = 380
  /\ ankle.y - knee.y = 380

\* C3: in the front view a knee bent 15 degrees from straight is VALGUS
\* when displaced inward (towards the other leg) and VARUS when displaced
\* outward.  The left leg is the one of larger x.
C3_KneeDirectionBySide ==
  (Analysed /\ ~NoLandmarks(Session.frontLandmarks)) =>
    /\ KneeOff(Session.frontLandmarks.leftHip, Session.frontLandmarks.leftKnee,
               Session.frontLandmarks.leftAnkle, -50) =>
         /\ postureAnalysis.front.measurements.leftKneeAlignment = 150
         /\ postureAnalysis.front.measurements.leftKneeDirection
              = "VALGUS (INWARD/KNOCKED)"
    /\ KneeOff(Session.frontLandmarks.leftHip, Session.frontLandmarks.leftKnee,
               Session.frontLandmarks.leftAnkle, 50) =>
         /\ postureAnalysis.front.measurements.leftKneeAlignment = 150
         /\ postureAnalysis.front.measurements.leftKneeDirection
              = "VARUS (OUTWARD/BOW-LEGGED)"
    /\ KneeOff(Session.frontLandmarks.rightHip,
               Session.frontLandmarks.rightKnee,
               Session.frontLandmarks.rightAnkle, 50) =>
         /\ postureAnalysis.front.measurements.rightKneeAlignment = 150
         /\ postureAnalysis.front.measurements.rightKneeDirection
              = "VALGUS (INWARD/KNOCKED)"
    /\ KneeOff(Session.frontLandmarks.rightHip,
               Session.frontLandmarks.rightKnee,
               Session.frontLandmarks.rightAnkle, -50) =>
         /\ postureAnalysis.front.measurements.rightKneeAlignment = 150
         /\ postureAnalysis.front.measurements.rightKneeDirection
              = "VARUS (OUTWARD/BOW-LEGGED)"

\* the line through two points rises by more than millionths / 10^6 per
\* unit of run; tan(2 degrees) lies between 0.034920 and 0.034921
Steeper(left, right, millionths) ==
  1000000 * Abs(left.y - right.y) > millionths * Abs(left.x - right.x)

PelvicDeformities ==
  {i \in 1..Len(postureAnalysis.front.deformities) :
     postureAnalysis.front.deformities[i].type = "Pelvic Obliquity"}

PelvicIssues ==
  {i \in 1..Len(postureAnalysis.front.issues) :
     /\ postureAnalysis.front.issues[i].mark # "ok"
     /\ postureAnalysis.front.issues[i].about = "Pelvic obliquity"}

\* C4: in the front view, hips tilted by less than 2 degrees give no
\* pelvic-obliquity issue and no Pelvic Obliquity deformity; hips tilted by
\* more than 2 degrees give exactly one issue and one deformity, whose
\* elevated side is the hip of smaller y and whose depressed side is the
\* other hip.
C4_PelvicObliquityAtThreshold ==
  (Analysed /\ ~NoLandmarks(Session.frontLandmarks)) =>
    /\ ~Steeper(Session.frontLandmarks.leftHip,
                Session.frontLandmarks.rightHip, 34920) =>
         PelvicDeformities = {} /\ PelvicIssues = {}
    /\ Steeper(Session.frontLandmarks.leftHip,
               Session.frontLandmarks.rightHip, 34921) =>
         /\ Cardinality(PelvicDeformities) = 1
         /\ Cardinality(PelvicIssues) = 1
         /\ \A i \in PelvicDeformities :
              IF Session.frontLandmarks.leftHip.y
                   < Session.frontLandmarks.rightHip.y
              THEN /\ postureAnalysis.front.deformities[i].elevated = "LEFT"
                   /\ postureAnalysis.front.deformities[i].depressed = "RIGHT"
              ELSE /\ postureAnalysis.front.deformities[i].elevated = "RIGHT"
                   /\ postureAnalysis.front.deformities[i].depressed = "LEFT"

\* the left hip 8 px above the right one, 210 px apart (2.2 degrees), was
\* analysed: one deformity, the left side elevated
C4_Witness ==
  /\ Analysed
  /\ ~NoLandmarks(Session.frontLandmarks)
  /\ Session.frontLandmarks.rightHip.y - Session.frontLandmarks.leftHip.y = 8
  /\ Session.frontLandmarks.leftHip.x - Session.frontLandmarks.rightHip.x = 210
  /\ Cardinality(PelvicDeformities) = 1
  /\ \A i \in PelvicDeformities :
       postureAnalysis.front.deformities[i].elevated = "LEFT"

\* C5: generateExerciseProtocol returns the maintenance block if and only
\* if no result of the analysis it is given (front, sideLeft, sideRight,
\* back) holds an abnormal issue, and the corrective block otherwise; a view
\* left out and the normal sentinel count as no issue.
C5_MaintenanceIffNoAbnormalIssue ==
  exerciseProtocol # NoProtocol =>
    IF \E v \in exerciseProtocol.present :
         AbnormalIssues(postureAnalysis[v]) # {}
    THEN /\ Head(exerciseProtocol.returned.exercises)
              = "Corrective Exercise Protocol:"
         /\ Len(exerciseProtocol.returned.exercises) = 5
    ELSE /\ Head(exerciseProtocol.returned.exercises)
              = "Maintenance Protocol:"
         /\ Len(exerciseProtocol.returned.exercises) = 2

\* the maintenance block was returned for an analysis without its back
\* result, whose front result holds the sentinel alone
C5_Witness ==
  /\ exerciseProtocol # NoProtocol
  /\ exerciseProtocol.present = Views \ {"back"}
  /\ Head(exerciseProtocol.returned.exercises) = "Maintenance Protocol:"
  /\ Len(postureAnalysis.front.issues) = 1
  /\ postureAnalysis.front.issues[1].mark = "ok"

\* the metrics compared between the side views: measurement, record type,
\* tolerance in degrees, and the names of the left and the right view
BilateralMetrics ==
  {<<"forwardNeck", "Forward Neck Asymmetry", 3, "LEFT", "RIGHT">>,
   <<"thoracicCurvature", "Thoracic Curvature Asymmetry", 5, "LEFT",
     "RIGHT">>,
   <<"lumbarCurvature", "Lumbar Curvature Asymmetry", 5, "LEFT", "RIGHT">>,
   <<"leftKneePosition", "Left Knee Side-to-Side Variation", 3, "LEFT VIEW",
     "RIGHT VIEW">>,
   <<"rightKneePosition", "Right Knee Side-to-Side Variation", 3,
     "LEFT VIEW", "RIGHT VIEW">>}

BilateralRecords(type) ==
  {i \in 1..Len(postureAnalysis.deformitySummary.bilateralComparison) :
     postureAnalysis.deformitySummary.bilateralComparison[i].type = type}

\* C6: with both side-view results, the summary holds a bilateral record
\* for a metric if and only if the left-view and right-view values of the
\* metric differ by strictly more than its tolerance (values in tenths of a
\* degree), and the record's moreSevere names the view of the larger value.
C6_BilateralRecordIffBeyondTolerance ==
  (/\ Analysed
   /\ ~NoLandmarks(Session.sideLeftLandmarks)
   /\ ~NoLandmarks(Session.sideRightLandmarks)) =>
    \A m \in BilateralMetrics :
      /\ BilateralRecords(m[2]) # {}
           <=> Abs(postureAnalysis.sideLeft.measurements[m[1]]
                     - postureAnalysis.sideRight.measurements[m[1]])
                 > 10 * m[3]
      /\ \A i \in BilateralRecords(m[2]) :
           postureAnalysis.deformitySummary.bilateralComparison[i].moreSevere
             = IF postureAnalysis.sideLeft.measurements[m[1]]
                    > postureAnalysis.sideRight.measurements[m[1]]
               THEN m[4] ELSE m[5]

\* C7: when fewer than two side views have landmarks, bilateralComparison
\* is empty and building the summary raises no error, whatever the side view
\* that is present measures.
C7_OneSideViewNoComparison ==
  (/\ Analysed
   /\ \/ NoLandmarks(Session.sideLeftLandmarks)
      \/ NoLandmarks(Session.sideRightLandmarks)) =>
    /\ postureAnalysis.deformitySummary.bilateralComparison = <<>>
    /\ uncaught = "none"

\* only the left side view was analysed, its forward neck over 30 degrees
C7_Witness ==
  /\ Analysed
  /\ ~NoLandmarks(Session.sideLeftLandmarks)
  /\ NoLandmarks(Session.sideRightLandmarks)
  /\ postureAnalysis.sideLeft.measurements.forwardNeck > 300
  /\ postureAnalysis.deformitySummary.bilateralComparison = <<>>
  /\ uncaught = "none"

\* C8: after setCalibration with arbitrary arguments every field of the
\* profile is the valid positive number supplied for it or the default of
\* the field, and none is zero, NaN or non-numeric.
C8_FieldsPositiveOrDefault ==
  \A f \in Fields :
    /\ userCalibration[f].k = "number"
    /\ userCalibration[f].v > 0
    /\ \/ userCalibration[f] = DefaultCalibration[f]
       \/ calibrationArgs # NoCall /\ userCalibration[f] = calibrationArgs[f]

\* the profile the last setCalibration call asks for, by its arguments
\* alone: the positive number supplied for a field, else its default
ProfileOfLastCall ==
  IF calibrationArgs = NoCall THEN DefaultCalibration
  ELSE [f \in Fields |->
          IF calibrationArgs[f].k = "number" /\ calibrationArgs[f].v > 0
          THEN calibrationArgs[f] ELSE DefaultCalibration[f]]

\* the analysis of the session under a profile
AnalysisUnder(profile) ==
  [front |-> analyzeFrontView(Session.frontLandmarks, profile),
   sideLeft |-> analyzeSideView(Session.sideLeftLandmarks, "left", profile),
   sideRight |-> analyzeSideView(Session.sideRightLandmarks, "right", profile),
   back |-> analyzeBackView(Session.backLandmarks, profile)]

Unavailable(cm) == cm.k \notin {"number", "Infinity", "NaN"}

\* C10: when the two landmarks of a calibration region coincide (both ears,
\* both hips), the analyzer does not raise, the angle of the region is
\* reported, and the centimeter companion of the region is flagged
\* unavailable instead of holding zero, Infinity or NaN.
C10_CoincidentPairCmUnavailable ==
  Analysed =>
    /\ (/\ ~NoLandmarks(Session.frontLandmarks)
        /\ Session.frontLandmarks.leftEar = Session.frontLandmarks.rightEar) =>
         /\ uncaught = "none"
         /\ postureAnalysis.front.measurements.earPinnaeLevel \in Nat
         /\ Unavailable(postureAnalysis.front.measurements.earPinnaeLevelCm)
    /\ (/\ ~NoLandmarks(Session.frontLandmarks)
        /\ Session.frontLandmarks.leftHip = Session.frontLandmarks.rightHip) =>
         /\ uncaught = "none"
         /\ postureAnalysis.front.measurements.pelvicObliquity \in Nat
         /\ Unavailable(postureAnalysis.front.measurements.pelvicObliquityCm)
    /\ (/\ ~NoLandmarks(Session.backLandmarks)
        /\ Session.backLandmarks.leftHip = Session.backLandmarks.rightHip) =>
         /\ uncaught = "none"
         /\ postureAnalysis.back.measurements.psisLevel \in Nat
         /\ Unavailable(postureAnalysis.back.measurements.psisLevelCm)

\* the angle measurements of the view results, in tenths of a degree: those
\* of calculateSlopeAngle, and the others
LevelMetrics ==
  {"earPinnaeLevel", "shoulderLevel", "elbowLevel", "pelvicObliquity",
   "kneeLevel", "scapularLevel", "psisLevel", "poplitealLine"}

AngleMetrics ==
  LevelMetrics
    \cup {"neckLevel", "leftKneeAlignment", "rightKneeAlignment",
          "forwardNeck", "chinForward", "shoulderPosition",
          "thoracicCurvature", "lumbarCurvature", "leftKneePosition",
          "rightKneePosition", "leftAnkleAlignment", "rightAnkleAlignment"}

\* the measurements of the stored result of a view
Measured(view) == postureAnalysis[view].measurements

\* C11: every angle a view result stores is within 0 and 180 degrees, and
\* every level metric, the tilt of a landmark pair, within 0 and 90 degrees
C11_AnglesWithinRange ==
  postureAnalysis # NoAnalysis =>
    \A view \in Views :
      \A name \in DOMAIN Measured(view) :
        /\ name \in AngleMetrics
             => Measured(view)[name] \in 0..1800
        /\ name \in LevelMetrics
             => Measured(view)[name] \in 0..900

\* a front view with one shoulder detected straight above the other: a tilt
\* of 90 degrees, the end of the range
C11_Witness ==
  /\ postureAnalysis # NoAnalysis
  /\ "shoulderLevel" \in DOMAIN Measured("front")
  /\ Measured("front").shoulderLevel = 900
  /\ Session.frontLandmarks.leftShoulder.x
       = Session.frontLandmarks.rightShoulder.x
  /\ Session.frontLandmarks.leftShoulder.y
       # Session.frontLandmarks.rightShoulder.y

\* the front landmarks under analysis have their shoulders at one height
ShouldersLevel ==
  /\ ~IsMissing(Session.frontLandmarks)
  /\ Session.frontLandmarks.leftShoulder.y
       = Session.frontLandmarks.rightShoulder.y

\* C12: in the front view, shoulders detected at the same height give a
\* shoulderLevel of 0.0, no shoulder asymmetry issue and no Shoulder Level
\* Asymmetry deformity, wherever the shoulders are from left to right and
\* wherever the other landmarks are
C12_LevelShouldersNotFlagged ==
  postureAnalysis # NoAnalysis /\ ShouldersLevel =>
    /\ Measured("front").shoulderLevel = 0
    /\ \A i \in 1..Len(postureAnalysis.front.issues) :
         postureAnalysis.front.issues[i].about # "Shoulder asymmetry"
    /\ \A i \in 1..Len(postureAnalysis.front.deformities) :
         postureAnalysis.front.deformities[i].type
           # "Shoulder Level Asymmetry"

\* level shoulders, the left one detected to the left of the right one, the
\* nose far off the upright pose and another metric of the view flagged
C12_Witness ==
  /\ postureAnalysis # NoAnalysis
  /\ ShouldersLevel
  /\ Session.frontLandmarks.leftShoulder.x
       < Session.frontLandmarks.rightShoulder.x
  /\ Session.frontLandmarks.nose # Upright.nose
  /\ Len(postureAnalysis.front.deformities) > 0

\* hip, knee and ankle on one line, the knee strictly between the two
StraightLeg(hip, knee, ankle) ==
  /\ (hip.x - knee.x) * (ankle.y - knee.y)
       = (hip.y - knee.y) * (ankle.x - knee.x)
  /\ (hip.x - knee.x) * (ankle.x - knee.x)
       + (hip.y - knee.y) * (ankle.y - knee.y) < 0

\* the stored front result holds no finding for the knee of a leg: its
\* alignment is 0.0, its direction empty, and no deformity and no knee issue
\* names it
NoKneeFinding(leg, LEG) ==
  /\ Measured("front")[leg \o "KneeAlignment"] = 0
  /\ Measured("front")[leg \o "KneeDirection"] = ""
  /\ \A i \in 1..Len(postureAnalysis.front.deformities) :
       "side" \in DOMAIN postureAnalysis.front.deformities[i]
         => postureAnalysis.front.deformities[i].side # LEG
  /\ \A i \in 1..Len(postureAnalysis.front.issues) :
       postureAnalysis.front.issues[i].about = "Knee alignment"
         => postureAnalysis.front.issues[i][leg] = <<>>

\* C13: in the front view, a leg whose hip, knee and ankle are on one line
\* with the knee between them has a knee alignment of 0.0, a direction that
\* is neither VALGUS nor VARUS, and no knee deformity or issue
C13_StraightLegNotClassified ==
  postureAnalysis # NoAnalysis /\ ~IsMissing(Session.frontLandmarks) =>
    /\ StraightLeg(Session.frontLandmarks.leftHip,
                   Session.frontLandmarks.leftKnee,
                   Session.frontLandmarks.leftAnkle)
         => NoKneeFinding("left", "LEFT")
    /\ StraightLeg(Session.frontLandmarks.rightHip,
                   Session.frontLandmarks.rightKnee,
                   Session.frontLandmarks.rightAnkle)
         => NoKneeFinding("right", "RIGHT")

\* the centimeter companion exceeds 1.5 cm: cm is printed in tenths
OverCm(cm) == cm.k = "Infinity" \/ (cm.k = "number" /\ cm.v > 15)

\* the stored result of a view flags a metric: a deformity of its type and
\* an issue about it
Flagged(view, type, about) ==
  /\ \E i \in 1..Len(postureAnalysis[view].deformities) :
       postureAnalysis[view].deformities[i].type = type
  /\ \E i \in 1..Len(postureAnalysis[view].issues) :
       postureAnalysis[view].issues[i].about = about

\* C14: the shoulder level of the front view and the scapular level of the
\* back view are flagged whenever the tilt exceeds 2 degrees or the
\* centimeter companion exceeds 1.5 cm
C14_FlaggedByAngleOrCm ==
  postureAnalysis # NoAnalysis =>
    /\ ~IsMissing(Session.frontLandmarks)
         /\ (\/ Measured("front").shoulderLevel > 20
             \/ OverCm(Measured("front").shoulderLevelCm))
         => Flagged("front", "Shoulder Level Asymmetry", "Shoulder asymmetry")
    /\ ~IsMissing(Session.backLandmarks)
         /\ (\/ Measured("back").scapularLevel > 20
             \/ OverCm(Measured("back").scapularLevelCm))
         => Flagged("back", "Scapular Height Asymmetry", "Scapular asymmetry")

\* the directional values documented for the deformities of a type
Sides == {"LEFT", "RIGHT"}

Categories(type) ==
  CASE type \in {"Left Knee Malalignment", "Right Knee Malalignment"} ->
         {"VALGUS (INWARD/KNOCKED)", "VARUS (OUTWARD/BOW-LEGGED)"}
    [] type \in {"Left Knee Position", "Right Knee Position"} ->
         {"FLEXION", "HYPEREXTENSION (RECURVATUM)"}
    [] type \in {"Left Ankle Malalignment", "Right Ankle Malalignment"} ->
         {"PRONATION (INWARD)", "SUPINATION (OUTWARD)"}
    [] type = "Forward Head Posture" -> {"ANTERIOR"}
    [] type = "Shoulder Position Deviation" ->
         {"ROUNDED (ANTERIOR)", "RETRACTED (POSTERIOR)"}
    [] type = "Thoracic Curvature" ->
         {"EXCESSIVE KYPHOSIS (POSTERIOR CONVEXITY)",
          "REDUCED KYPHOSIS (FLAT BACK)"}
    [] type = "Lumbar Curvature" ->
         {"EXCESSIVE LORDOSIS (ANTERIOR CONVEXITY)",
          "REDUCED LORDOSIS (FLAT LUMBAR)"}
    [] OTHER -> Sides

\* a deformity record carries one directional value, of its type's values;
\* the side opposite to an elevated or longer side is the other side
OneDirection(deformity) ==
  /\ Cardinality(DOMAIN deformity \cap {"elevated", "direction", "longer"})
       = 1
  /\ \A f \in DOMAIN deformity \cap {"elevated", "direction", "longer"} :
       deformity[f] \in Categories(deformity.type)
  /\ "elevated" \in DOMAIN deformity
       => {deformity.elevated, deformity.depressed} = Sides
  /\ "longer" \in DOMAIN deformity
       => {deformity.longer, deformity.shorter} = Sides

\* the deformities of a result: at most one of a type, each with one
\* direction
Unambiguous(deformities) ==
  /\ \A i \in 1..Len(deformities) : OneDirection(deformities[i])
  /\ \A i, j \in 1..Len(deformities) :
       deformities[i].type = deformities[j].type => i = j

\* C15: the result of every analyzer holds at most one deformity of a
\* metric, carrying a single direction out of the documented values of the
\* metric, and an analysis run again on the same landmarks and calibration
\* stores the same result
C15_OneClassificationPerMetric ==
  /\ [](postureAnalysis # NoAnalysis =>
          \A view \in Views :
            Unambiguous(postureAnalysis[view].deformities))
  /\ [][postureAnalysis # NoAnalysis => postureAnalysis' = postureAnalysis]_vars

\* a front result holding several deformities, a knee among them
C15_Witness ==
  /\ postureAnalysis # NoAnalysis
  /\ ~IsMissing(Session.frontLandmarks)
  /\ Len(postureAnalysis.front.deformities) >= 3
  /\ \E i \in 1..Len(postureAnalysis.front.deformities) :
       postureAnalysis.front.deformities[i].type = "Left Knee Malalignment"
\* the view results that analyzePosture and analyzeUploadedPosture hand to
\* generateDeformitySummary
Given == AnalysisUnder(userCalibration)

Summary == postureAnalysis.deformitySummary

\* C16: the summary's frontalPlane is the deformities of the front result
\* followed by those of the back result, in their order, none dropped,
\* doubled or changed.
C16_FrontalPlaneFrontThenBack ==
  Analysed =>
    LET front == Given.front.deformities
        back == Given.back.deformities
    IN  /\ Len(Summary.frontalPlane) = Len(front) + Len(back)
        /\ \A i \in 1..Len(front) : Summary.frontalPlane[i] = front[i]
        /\ \A j \in 1..Len(back) :
             Summary.frontalPlane[Len(front) + j] = back[j]

\* the leaning session seen from the front and from the back: two
\* deformities of each, all four different
C16_Witness ==
  /\ Analysed
  /\ Len(Given.front.deformities) = 2
  /\ Len(Given.back.deformities) = 2
  /\ Cardinality({Summary.frontalPlane[i] : i \in 1..4}) = 4

\* C17: the summary's sagittalPlane has one entry for each deformity of each
\* side view, those of the left view first; an entry is the deformity with
\* its side set to LEFT when it comes from the left view and to RIGHT when
\* it comes from the right view.
C17_SagittalPlaneLeftThenRight ==
  Analysed =>
    LET left == Given.sideLeft.deformities
        right == Given.sideRight.deformities
        Tagged(entry, deformity, label) ==
          /\ DOMAIN entry = DOMAIN deformity \cup {"side"}
          /\ entry.side = label
          /\ \A f \in DOMAIN deformity \ {"side"} : entry[f] = deformity[f]
    IN  /\ Len(Summary.sagittalPlane) = Len(left) + Len(right)
        /\ \A i \in 1..Len(left) :
             Tagged(Summary.sagittalPlane[i], left[i], "LEFT")
        /\ \A j \in 1..Len(right) :
             Tagged(Summary.sagittalPlane[Len(left) + j], right[j], "RIGHT")

\* both side views with deformities, the right view showing one of the left
\* knee, itself marked LEFT
C17_Witness ==
  /\ Analysed
  /\ Len(Given.sideLeft.deformities) > 0
  /\ \E j \in 1..Len(Given.sideRight.deformities) :
       /\ "side" \in DOMAIN Given.sideRight.deformities[j]
       /\ Given.sideRight.deformities[j].side = "LEFT"
       /\ Summary.sagittalPlane[Len(Given.sideLeft.deformities) + j].side
            = "RIGHT"

\* C18: generateDeformitySummary leaves the view results it is given as they
\* were, the deformities of the front result among them, and a second
\* aggregation of the same results gives an equal summary.
C18_AggregationLeavesResults ==
  Analysed =>
    /\ \A v \in Views : postureAnalysis[v] = Given[v]
    /\ generateDeformitySummary([v \in Views |-> postureAnalysis[v]]).summary
         = Summary

\* C19: a view without landmarks adds nothing to the summary, which is built
\* without error: no frontalPlane entry of the front or back view, no
\* sagittalPlane entry of a side view, no bilateral record unless both side
\* views are there, and no kneeAnalysis entry of the view.
C19_AbsentViewAddsNothing ==
  LET absent(v) == NoLandmarks(Session[v \o "Landmarks"])
  IN  Analysed =>
           /\ uncaught = "none"
           /\ absent("front") =>
                /\ Len(Summary.frontalPlane) = Len(Given.back.deformities)
                /\ DOMAIN Summary.kneeAnalysis.front = {}
           /\ absent("back") =>
                Len(Summary.frontalPlane) = Len(Given.front.deformities)
           /\ absent("sideLeft") =>
                /\ \A i \in 1..Len(Summary.sagittalPlane) :
                     Summary.sagittalPlane[i].side # "LEFT"
                /\ "left" \notin DOMAIN Summary.kneeAnalysis.side
           /\ absent("sideRight") =>
                /\ \A i \in 1..Len(Summary.sagittalPlane) :
                     Summary.sagittalPlane[i].side # "RIGHT"
                /\ "right" \notin DOMAIN Summary.kneeAnalysis.side
           /\ absent("sideLeft") \/ absent("sideRight") =>
                Summary.bilateralComparison = <<>>


\* what a single analysis run on the landmark sets of data under a profile
\* stores
SingleRun(data, profile) ==
  WithSummary(generateDeformitySummary(
    [front |-> analyzeFrontView(data.frontLandmarks, profile),
     sideLeft |-> analyzeSideView(data.sideLeftLandmarks, "left", profile),
     sideRight |-> analyzeSideView(data.sideRightLandmarks, "right", profile),
     back |-> analyzeBackView(data.backLandmarks, profile)]))

\* C20 as stated: after any sequence of captures or uploads, calibration
\* updates and analysis runs the stored analysis, view results and summary,
\* is what a single run on the current landmark sets under the current
\* calibration would store.
C20_StoredIsRunOnCurrent ==
  Analysed => postureAnalysis = SingleRun(Session, userCalibration)

\* C20: every analysis run stores what a single run on the landmark sets and
\* the calibration of that moment produces, with nothing of the analysis
\* stored before it; until the next run or reset the stored analysis stays
\* as that run left it.
C20_EveryRunStoresSingleRun ==
  [][postureAnalysis' # postureAnalysis =>
       \/ postureAnalysis' = NoAnalysis
       \/ /\ currentMode' = "camera"
          /\ postureAnalysis' = SingleRun(capturedData', userCalibration')
       \/ /\ currentMode' = "upload"
          /\ postureAnalysis' = SingleRun(uploadedData', userCalibration')]_vars

\* an analysis of uploads with no front view, made under the calibration for
\* broad shoulders: the scapular level in centimeters is that of 50 cm
C20_Witness ==
  /\ Analysed
  /\ currentMode = "upload"
  /\ uploadedData.frontLandmarks = NullLandmarks
  /\ uploadedData.backLandmarks # NullLandmarks
  /\ userCalibration.shoulderWidth = Num(50)
  /\ postureAnalysis = SingleRun(uploadedData, userCalibration)
  /\ postureAnalysis.front.measurements = <<>>
  /\ postureAnalysis.back.measurements.scapularLevelCm = Num(17)

\* C21: the centimeters of a region are its pixels times the profile width
\* over the distance between the two landmarks of the region, so that for one
\* landmark set and calibration pelvicObliquityCm of the front view equals
\* psisLevelCm of the back view, and kneeLevelCm equals poplitealLineCm.
C21_HipCmSameFrontAndBack ==
  (/\ Analysed
   /\ ~NoLandmarks(Session.frontLandmarks)
   /\ Session.frontLandmarks = Session.backLandmarks) =>
    /\ postureAnalysis.front.measurements.pelvicObliquityCm
         = postureAnalysis.back.measurements.psisLevelCm
    /\ postureAnalysis.front.measurements.kneeLevelCm
         = postureAnalysis.back.measurements.poplitealLineCm

\* the normal sentinel of each analyzer
NormalOf ==
  [front |-> "Normal frontal plane alignment",
   sideLeft |-> "Normal sagittal plane alignment",
   sideRight |-> "Normal sagittal plane alignment",
   back |-> "Normal posterior alignment"]

\* C22: for a landmark set that is not empty the issues of each analyzer are
\* either the normal sentinel of the analyzer alone or abnormal issues alone,
\* never none and never the sentinel next to an abnormal issue.
C22_SentinelOrAbnormalIssues ==
  Analysed =>
    \A v \in Views :
      ~NoLandmarks(Session[v \o "Landmarks"]) =>
        LET issues == postureAnalysis[v].issues
        IN  /\ Len(issues) > 0
            /\ \/ issues = <<Sentinel(NormalOf[v])>>
               \/ \A i \in 1..Len(issues) : ~IncludesCheckMark(issues[i])

\* the front view with the sentinel alone, the back view with two abnormal
\* issues or more and no sentinel
C22_Witness ==
  /\ Analysed
  /\ ~NoLandmarks(Session.frontLandmarks)
  /\ ~NoLandmarks(Session.backLandmarks)
  /\ postureAnalysis.front.issues = <<Sentinel(NormalOf.front)>>
  /\ Len(postureAnalysis.back.issues) >= 2
  /\ AbnormalIssues(postureAnalysis.back) = 1..Len(postureAnalysis.back.issues)

\* C23: for every side view with landmarks lumbarCurvature is 0.0 and a
\* Lumbar Curvature deformity of direction REDUCED LORDOSIS is among the
\* deformities, the joint angle never passing 180 degrees; so the issues of a
\* side view are never the normal sagittal sentinel.
C23_LumbarAlwaysReduced ==
  Analysed =>
    \A v \in {"sideLeft", "sideRight"} :
      ~NoLandmarks(Session[v \o "Landmarks"]) =>
        /\ postureAnalysis[v].measurements.lumbarCurvature = 0
        /\ postureAnalysis[v].measurements.lumbarCurvatureType
             = "REDUCED LORDOSIS (FLAT LUMBAR)"
        /\ Cardinality(
             {i \in 1..Len(postureAnalysis[v].deformities) :
                /\ postureAnalysis[v].deformities[i].type = "Lumbar Curvature"
                /\ postureAnalysis[v].deformities[i].direction
                     = "REDUCED LORDOSIS (FLAT LUMBAR)"
                /\ postureAnalysis[v].deformities[i].angle = 0}) = 1
        /\ \E i \in 1..Len(postureAnalysis[v].issues) :
             /\ postureAnalysis[v].issues[i].mark = "warn"
             /\ postureAnalysis[v].issues[i].about = "Reduced lumbar lordosis"
        /\ postureAnalysis[v].issues # <<Sentinel(NormalOf[v])>>

\* a side view with the hips well ahead of the shoulders and the knees: the
\* trunk and the thighs are far from a straight line, the thoracic curvature
\* shows it, and the lumbar curvature is 0.0 all the same
C23_Witness ==
  /\ Analysed
  /\ ~NoLandmarks(Session.sideLeftLandmarks)
  /\ Session.sideLeftLandmarks.leftHip.x - Session.sideLeftLandmarks.leftShoulder.x
       >= 200
  /\ postureAnalysis.sideLeft.measurements.thoracicCurvature >= 200
  /\ postureAnalysis.sideLeft.measurements.lumbarCurvature = 0

\* C24: in every result an analyzer returns there are deformities exactly
\* when there is an abnormal issue: none in a view whose issues are the
\* normal sentinel alone, and no abnormal issue without a deformity, ankle
\* deviations just above 5 degrees in the back view included.
C24_DeformitiesIffAbnormalIssue ==
  Analysed =>
    \A v \in Views :
      Len(Given[v].deformities) > 0 <=> AbnormalIssues(Given[v]) # {}

\* C25: a sagittalPlane entry has the type, the direction and the angle of
\* the side-view deformity it was made of, and for a knee position the side
\* of the limb, LEFT for Left Knee Position and RIGHT for Right Knee
\* Position: the view label is added and nothing else changes.
C25_EntryKeepsDeformityFields ==
  Analysed =>
    LET source == Given.sideLeft.deformities \o Given.sideRight.deformities
    IN  /\ Len(Summary.sagittalPlane) = Len(source)
        /\ \A i \in 1..Len(source) :
             /\ \A f \in DOMAIN source[i] \cap {"type", "direction", "angle"} :
                  Summary.sagittalPlane[i][f] = source[i][f]
             /\ source[i].type = "Left Knee Position" =>
                  /\ source[i].side = "LEFT"
                  /\ Summary.sagittalPlane[i].side = "LEFT"
             /\ source[i].type = "Right Knee Position" =>
                  /\ source[i].side = "RIGHT"
                  /\ Summary.sagittalPlane[i].side = "RIGHT"


\* C26: in camera mode, whenever the capture flow calls analyzePosture, at
\* the end of the countdown of the last phase, all four captured landmark
\* sets are non-null, whatever the interleaving of clicks, ticks, detection
\* results and mode switches before.
C26_AnalysisOfFourCaptures ==
  [][(/\ currentMode = "camera"
      /\ currentPhase = Len(phases) - 1
      /\ currentPhase' = Len(phases)) =>
       \A v \in Views : capturedData'[v \o "Landmarks"] # NullLandmarks]_vars

\* C27: in a camera session started by startAnalysis the views are stored
\* in the order front, sideLeft, sideRight, back, one at the end of each
\* countdown; at most one countdown runs at a time; currentPhase never
\* exceeds the number of phases; analyzePosture runs once, in the step that
\* stores the back view, and no capture is stored after it.
C27_CapturesInPhaseOrder ==
  /\ [](/\ Len(countdown) <= 1
        /\ currentPhase <= Len(phases)
        /\ uncaught = "none"
        /\ currentPhase = Len(phases) =>
             countdown = <<>> /\ Elements.captureBtn)
  /\ [][Elements.startBtn =>
         LET reset == /\ capturedData' = NoData
                      /\ postureAnalysis' = NoAnalysis
                      /\ currentPhase' = currentPhase
                      /\ countdown' = countdown
             stored ==
               /\ currentPhase < Len(phases)
               /\ currentPhase' = currentPhase + 1
               /\ Len(countdown) = 1
               /\ countdown' = <<>>
               /\ capturedData' =
                    [capturedData EXCEPT
                       ![phases[currentPhase + 1] \o "Landmarks"] =
                          currentLandmarks]
               /\ IF currentPhase' = Len(phases)
                  THEN postureAnalysis' =
                         SingleRun(capturedData', userCalibration')
                  ELSE postureAnalysis' = postureAnalysis
         IN  (\/ capturedData' # capturedData
              \/ currentPhase' # currentPhase
              \/ postureAnalysis' # postureAnalysis
              \/ Len(countdown') < Len(countdown)) => reset \/ stored]_vars

\* the four views of the person posing captured in one session and analysed
C27_Witness ==
  /\ Elements.startBtn
  /\ currentMode = "camera"
  /\ currentPhase = Len(phases)
  /\ capturedData = Posing
  /\ countdown = <<>>
  /\ postureAnalysis = SingleRun(Posing, userCalibration)

\* C28: in upload mode the landmark set stored for a view is the one the
\* pose detection found in the image of that view: never one found in the
\* image of another view, and none when no pose is found in its image.
C28_ViewStoresOwnDetection ==
  currentMode = "upload" =>
    \A v \in Views :
      (/\ uploadedImages[v] # NoImage
       /\ uploadedData[v \o "Landmarks"] # NullLandmarks) =>
        uploadedData[v \o "Landmarks"] = uploadedImages[v]

\* C29: after resetAnalysis, while the user has chosen no new image and
\* started no capture, the stored analysis and all stored landmark sets
\* stay null and the download buttons disabled: no callback awaited from
\* before the reset writes landmarks, sets the analysis or enables a
\* download.
C29_ResetStaysReset ==
  [][(/\ \A v \in Views : uploadedImages[v] = NoImage
      /\ uploadedImages' = uploadedImages
      /\ countdown = <<>>
      /\ capturedData = NoData
      /\ uploadedData = NoData
      /\ postureAnalysis = NoAnalysis
      /\ Elements.downloadBtn
      /\ Elements.downloadUploadBtn) =>
       /\ capturedData' = NoData
       /\ uploadedData' = NoData
       /\ postureAnalysis' = NoAnalysis
       /\ Elements'.downloadBtn
       /\ Elements'.downloadUploadBtn]_vars

\* C30: every abnormal issue and every measurement of every view result of
\* the analysis handed to the narrative generator, front, sideLeft,
\* sideRight and back, is in the data string sent to the text generation.
C30_EveryFindingInDataString ==
  [][dataString' # dataString =>
       \A v \in Views :
         /\ \A i \in 1..Len(postureAnalysis[v].issues) :
              ~IncludesCheckMark(postureAnalysis[v].issues[i]) =>
                \E n \in 1..Len(dataString'.issues) :
                  dataString'.issues[n] = postureAnalysis[v].issues[i]
         /\ \A key \in DOMAIN postureAnalysis[v].measurements :
              /\ key \in DOMAIN dataString'.measurements
              /\ dataString'.measurements[key] =
                   postureAnalysis[v].measurements[key]]_vars
====
